---------------------------- MODULE Spec2Model ----------------------------
(***************************************************************************)
(* Entity resolution and status progression of the job tracker            *)
(* (app/services/processor.py, app/models.py, app/core/constants.py).     *)
(*                                                                         *)
(* Python strings are sequences of one-character strings, so that         *)
(* lower(), strip(), split(), re.sub and the `in` operator are computed   *)
(* on characters.  None and "" are both the empty sequence: every use in  *)
(* the modelled code tests them for truthiness only.                      *)
(***************************************************************************)
EXTENDS Integers, Sequences, FiniteSets, TLC

(* ---------------------------- bounds ---------------------------------- *)
\* most process_extraction calls in one behaviour (one event row per call)
MaxEvents == 3
\* most JobApplication rows in one behaviour
MaxApps == 2
\* extract calls on one EmailExtractor
MaxCalls == 3
\* run_sync calls over the mailbox
MaxRuns == 2
\* most words in an employer name given to _normalize_company
MaxNameWords == 3
\* most words in each of two employer names compared by the name tier
MaxPairWords == 2

(* ------------------------- Python str helpers ------------------------- *)
None == << >>

UpperChars ==
    << "A", "B", "C", "D", "E", "F", "G", "H", "I", "J", "K", "L", "M",
       "N", "O", "P", "Q", "R", "S", "T", "U", "V", "W", "X", "Y", "Z" >>

LowerChars ==
    << "a", "b", "c", "d", "e", "f", "g", "h", "i", "j", "k", "l", "m",
       "n", "o", "p", "q", "r", "s", "t", "u", "v", "w", "x", "y", "z" >>

DigitChars == { "0", "1", "2", "3", "4", "5", "6", "7", "8", "9" }

Range(s) == { s[i] : i \in DOMAIN s }

\* str.lower() on one character
LowerChar(c) ==
    IF c \in Range(UpperChars)
    THEN LowerChars[CHOOSE i \in DOMAIN UpperChars : UpperChars[i] = c]
    ELSE c

\* str.lower()
Lower(s) == [i \in DOMAIN s |-> LowerChar(s[i])]

\* regex class \s
IsSpace(c) == c \in { " ", "\t", "\n" }

\* regex class \w
IsWord(c) == c \in Range(UpperChars) \cup Range(LowerChars) \cup DigitChars \cup { "_" }

\* re.sub(r'[^\w\s]', '', s)
KeepWordOrSpace(c) == IsWord(c) \/ IsSpace(c)
RemovePunct(s) == SelectSeq(s, KeepWordOrSpace)

\* str.strip()
Strip(s) ==
    LET ink == { i \in DOMAIN s : ~IsSpace(s[i]) }
    IN  IF ink = {} THEN << >>
        ELSE LET lo == CHOOSE i \in ink : \A j \in ink : i <= j
                 hi == CHOOSE i \in ink : \A j \in ink : j <= i
             IN  SubSeq(s, lo, hi)

\* a in b, for Python strings
Contains(b, a) ==
    \E i \in 0..(Len(b) - Len(a)) : SubSeq(b, i + 1, i + Len(a)) = a

\* str.endswith
EndsWith(s, t) ==
    Len(t) <= Len(s) /\ SubSeq(s, Len(s) - Len(t) + 1, Len(s)) = t

\* str.split(): the maximal runs of non-whitespace characters, in order
RECURSIVE Split(_)
Split(s) ==
    LET t == Strip(s)
    IN  IF t = << >> THEN << >>
        ELSE LET sp == { i \in DOMAIN t : IsSpace(t[i]) }
             IN  IF sp = {} THEN << t >>
                 ELSE LET k == CHOOSE i \in sp : \A j \in sp : i <= j
                      IN  << SubSeq(t, 1, k - 1) >> \o Split(SubSeq(t, k + 1, Len(t)))

\* " ".join(parts)
RECURSIVE JoinSpace(_)
JoinSpace(parts) ==
    IF parts = << >> THEN << >>
    ELSE IF Len(parts) = 1 THEN Head(parts)
    ELSE Head(parts) \o << " " >> \o JoinSpace(Tail(parts))

\* s.split('@')[1] when '@' in s, else ""
DomainOf(s) ==
    LET ats == { i \in DOMAIN s : s[i] = "@" }
    IN  IF ats = {} THEN << >>
        ELSE LET a == CHOOSE i \in ats : \A j \in ats : i <= j
                 later == { i \in ats : i > a }
                 e == IF later = {} THEN Len(s) + 1
                      ELSE CHOOSE i \in later : \A j \in later : i <= j
             IN  SubSeq(s, a + 1, e - 1)

(* ------------------------- string constants --------------------------- *)
suffixes ==
    << <<"g", "m", "b", "h">>,
       <<"a", "g">>,
       <<"i", "n", "c">>,
       <<"l", "t", "d">>,
       <<"c", "o">>,
       <<"k", "g">>,
       <<"p", "l", "c">>,
       <<"s", "e">>,
       <<"c", "o", "r", "p">>,
       <<"c", "o", "r", "p", "o", "r", "a", "t", "i", "o", "n">>,
       <<"h", "o", "l", "d", "i", "n", "g">>,
       <<"g", "r", "o", "u", "p">>,
       <<"g", "e", "r", "m", "a", "n", "y">>,
       <<"d", "e", "u", "t", "s", "c", "h", "l", "a", "n", "d">>,
       <<"b", "e", "r", "l", "i", "n">>,
       <<"e", "u", "r", "o", "p", "e">>,
       <<"e", "m", "e", "a">>,
       <<"i", "n", "t", "e", "r", "n", "a", "t", "i", "o", "n", "a", "l">>,
       <<"s", "o", "l", "u", "t", "i", "o", "n", "s">>,
       <<"s", "y", "s", "t", "e", "m", "s">>,
       <<"t", "e", "c", "h", "n", "o", "l", "o", "g", "y">>,
       <<"t", "e", "c", "h", "n", "o", "l", "o", "g", "i", "e", "s">>,
       <<"s", "u", "c", "c", "e", "s", "s", "f", "a", "c", "t", "o", "r", "s">>,
       <<"w", "o", "r", "k", "d", "a", "y">>,
       <<"g", "r", "e", "e", "n", "h", "o", "u", "s", "e">> >>

generic_domains ==
    { <<"g", "m", "a", "i", "l", ".", "c", "o", "m">>,
      <<"y", "a", "h", "o", "o", ".", "c", "o", "m">>,
      <<"o", "u", "t", "l", "o", "o", "k", ".", "c", "o", "m">>,
      <<"h", "o", "t", "m", "a", "i", "l", ".", "c", "o", "m">>,
      <<"i", "c", "l", "o", "u", "d", ".", "c", "o", "m">>,
      <<"m", "e", ".", "c", "o", "m">>,
      <<"l", "i", "v", "e", ".", "c", "o", "m">>,
      <<"m", "s", "n", ".", "c", "o", "m">> }

shared_platform_anchors ==
    { <<"m", "y", "w", "o", "r", "k", "d", "a", "y", "j", "o", "b", "s", ".", "c", "o", "m">>,
      <<"s", "u", "c", "c", "e", "s", "s", "f", "a", "c", "t", "o", "r", "s", ".", "e", "u">>,
      <<"s", "u", "c", "c", "e", "s", "s", "f", "a", "c", "t", "o", "r", "s", ".", "c", "o", "m">>,
      <<"g", "r", "e", "e", "n", "h", "o", "u", "s", "e", ".", "i", "o">>,
      <<"s", "m", "a", "r", "t", "r", "e", "c", "r", "u", "i", "t", "e", "r", "s", ".", "c", "o", "m">> }

shared_emails ==
    { <<"n", "o", "t", "i", "f", "i", "c", "a", "t", "i", "o", "n", "s", "@", "s", "m", "a", "r", "t", "r", "e", "c", "r", "u", "i", "t", "e", "r", "s", ".", "c", "o", "m">>,
      <<"n", "o", "-", "r", "e", "p", "l", "y", "@", "s", "u", "c", "c", "e", "s", "s", "f", "a", "c", "t", "o", "r", "s", ".", "c", "o", "m">>,
      <<"n", "o", "r", "e", "p", "l", "y", "@", "m", "y", "w", "o", "r", "k", "d", "a", "y", ".", "c", "o", "m">> }

platforms ==
    << <<"W", "o", "r", "k", "d", "a", "y">>,
       <<"G", "r", "e", "e", "n", "h", "o", "u", "s", "e">>,
       <<"S", "m", "a", "r", "t", "R", "e", "c", "r", "u", "i", "t", "e", "r", "s">>,
       <<"L", "e", "v", "e", "r">>,
       <<"A", "s", "h", "b", "y">>,
       <<"J", "o", "b", "v", "i", "t", "e">>,
       <<"S", "u", "c", "c", "e", "s", "s", "F", "a", "c", "t", "o", "r", "s">> >>

generic_words ==
    { <<"g", "r", "o", "u", "p">>,
      <<"s", "y", "s", "t", "e", "m", "s">>,
      <<"s", "o", "l", "u", "t", "i", "o", "n", "s">>,
      <<"t", "e", "c", "h", "n", "o", "l", "o", "g", "i", "e", "s">>,
      <<"h", "o", "l", "d", "i", "n", "g">>,
      <<"l", "i", "m", "i", "t", "e", "d">> }

create_domain_exclusions ==
    { <<"g", "m", "a", "i", "l", ".", "c", "o", "m">>,
      <<"y", "a", "h", "o", "o", ".", "c", "o", "m">> }

UnknownName == <<"U", "n", "k", "n", "o", "w", "n">>
UnknownPosition == <<"U", "n", "k", "n", "o", "w", "n", " ", "P", "o", "s", "i", "t", "i", "o", "n">>
NameAcme == <<"A", "c", "m", "e">>
NameAcmeGmbH == <<"A", "c", "m", "e", " ", "G", "m", "b", "H">>
NameBeta == <<"B", "e", "t", "a", " ", "S", "y", "s", "t", "e", "m", "s">>
MailAcmeHR == <<"h", "r", "@", "a", "c", "m", "e", ".", "c", "o", "m">>
MailAcmeJobs == <<"J", "o", "b", "s", "@", "a", "c", "m", "e", ".", "c", "o", "m">>
MailGmail == <<"b", "e", "t", "a", ".", "h", "r", "@", "g", "m", "a", "i", "l", ".", "c", "o", "m">>
PosDev == <<"D", "e", "v", "e", "l", "o", "p", "e", "r">>
SenderHR == <<"H", "R", " ", "T", "e", "a", "m">>
SenderBot == <<"R", "e", "c", "r", "u", "i", "t", "i", "n", "g">>

(* ------------------- app/models.py, app/core/constants.py ------------- *)
ApplicationStatus ==
    { "APPLIED", "INTERVIEW", "ASSESSMENT", "PENDING", "COMMUNICATION",
      "OFFER", "REJECTED", "UNKNOWN" }

\* old_status of a creation event (Python None)
NoStatus == "NONE"

STATUS_RANK ==
    [ s \in ApplicationStatus |->
        CASE s = "UNKNOWN"       -> 0
          [] s = "APPLIED"       -> 1
          [] s = "PENDING"       -> 2
          [] s = "COMMUNICATION" -> 2
          [] s = "ASSESSMENT"    -> 3
          [] s = "INTERVIEW"     -> 4
          [] s = "REJECTED"      -> 5
          [] s = "OFFER"         -> 6 ]

\* JobApplication.status_rank
status_rank(app) == STATUS_RANK[app.status]

\* can_update_status that compares the ranks only
can_update_status_by_rank(app, new_status) ==
    STATUS_RANK[new_status] > status_rank(app)

\* JobApplication.can_update_status
can_update_status(app, new_status) ==
    STATUS_RANK[new_status] > status_rank(app) \/ new_status = "REJECTED"

(* ------------------- ApplicationProcessor._normalize_company ---------- *)
\* re.search(rf'\s+{suffix}$', name) on a stripped name
SuffixMatches(name, suffix) ==
    /\ Len(name) > Len(suffix)
    /\ EndsWith(name, suffix)
    /\ IsSpace(name[Len(name) - Len(suffix)])

\* re.sub(rf'\s+{suffix}$', '', name): drops the suffix and the whole
\* whitespace run in front of it
CutSuffix(name, suffix) ==
    LET p == Len(name) - Len(suffix)
        ink == { i \in 1..p : ~IsSpace(name[i]) }
    IN  IF ink = {} THEN << >>
        ELSE SubSeq(name, 1, CHOOSE i \in ink : \A j \in ink : j <= i)

\* the while-changed loop: strip, cut the first listed suffix that matches
RECURSIVE StripSuffixes(_)
StripSuffixes(name) ==
    LET n == Strip(name)
        hits == { i \in DOMAIN suffixes : SuffixMatches(n, suffixes[i]) }
    IN  IF hits = {} THEN n
        ELSE StripSuffixes(
                 CutSuffix(n, suffixes[CHOOSE i \in hits : \A j \in hits : i <= j]))

\* normalize_company that strips the suffixes before it removes the
\* punctuation
normalize_company_suffix_first(name) ==
    IF name = << >> THEN << >>
    ELSE Strip(RemovePunct(StripSuffixes(Lower(name))))

normalize_company(name) ==
    IF name = << >> THEN << >>
    ELSE Strip(StripSuffixes(RemovePunct(Lower(name))))

(* ------------------- is_match, tier 4 helpers -------------------------- *)
is_acronym(short, long) ==
    IF short = << >> \/ long = << >> \/ Len(short) < 2 THEN FALSE
    ELSE LET words == Split(long)
         IN  IF words = << >> THEN FALSE
             ELSE short = [i \in DOMAIN words |-> words[i][1]]

NotGenericWord(w) == w \notin generic_words

\* " ".join(w for w in name.split() if w not in generic_words)
clean_name(name) == JoinSpace(SelectSeq(Split(name), NotGenericWord))

\* name_tier that tries the acronym in one direction only
name_tier_one_way(norm_new_name, norm_app_name) ==
    /\ norm_new_name # << >>
    /\ norm_app_name # << >>
    /\ \/ norm_new_name = norm_app_name
       \/ is_acronym(norm_new_name, norm_app_name)
       \/ /\ Len(norm_new_name) > 4
          /\ Len(norm_app_name) > 4
          /\ \/ Contains(norm_app_name, norm_new_name)
             \/ Contains(norm_new_name, norm_app_name)
          /\ LET clean_new == clean_name(norm_new_name)
                 clean_app == clean_name(norm_app_name)
             IN  /\ Len(clean_new) > 3
                 /\ Len(clean_app) > 3
                 /\ \/ Contains(clean_app, clean_new)
                    \/ Contains(clean_new, clean_app)

\* the body of "if norm_new_name and norm_app_name:" (tier 4)
name_tier(norm_new_name, norm_app_name) ==
    /\ norm_new_name # << >>
    /\ norm_app_name # << >>
    /\ \/ norm_new_name = norm_app_name
       \/ is_acronym(norm_new_name, norm_app_name)
       \/ is_acronym(norm_app_name, norm_new_name)
       \/ /\ Len(norm_new_name) > 4
          /\ Len(norm_app_name) > 4
          /\ \/ Contains(norm_app_name, norm_new_name)
             \/ Contains(norm_new_name, norm_app_name)
          /\ LET clean_new == clean_name(norm_new_name)
                 clean_app == clean_name(norm_app_name)
             IN  /\ Len(clean_new) > 3
                 /\ Len(clean_app) > 3
                 /\ \/ Contains(clean_app, clean_new)
                    \/ Contains(clean_new, clean_app)

(* ------------------------- input sets ---------------------------------- *)
\* Message ids, thread ids, subjects, snippets and summaries are only
\* compared and tested for emptiness: they are plain strings, "" when absent.
NoThread == ""

\* The messages the behaviours draw from.  Each fixes the metadata that
\* SyncService._process_message passes as email_meta, the message timestamp
\* and the non-status part of the extracted record; the status and the
\* rejection flag of the record range over all values (see Records).
Inbox ==
    { [ id |-> "m1", thread_id |-> "t1", subject |-> "Your application",
        snippet |-> "sn1", sender_name |-> SenderHR, sender_email |-> MailAcmeHR,
        timestamp |-> 2,
        company_name |-> NameAcmeGmbH, position |-> PosDev, summary |-> "Applied at Acme" ],
      [ id |-> "m2", thread_id |-> "t1", subject |-> "Re: Your application",
        snippet |-> "sn2", sender_name |-> SenderBot, sender_email |-> MailGmail,
        timestamp |-> 3,
        company_name |-> NameBeta, position |-> None, summary |-> "" ],
      [ id |-> "m3", thread_id |-> NoThread, subject |-> "News from Acme",
        snippet |-> "sn3", sender_name |-> SenderHR, sender_email |-> MailAcmeJobs,
        timestamp |-> 1,
        company_name |-> NameAcme, position |-> UnknownPosition, summary |-> "No summary extracted" ] }

\* Messages of senders on a shared applicant-tracking domain and on a public
\* webmail domain: two addresses of each domain, for different employers.
MailGreenhouseAcme == <<"a", "c", "m", "e", "@", "g", "r", "e", "e", "n", "h", "o", "u", "s", "e", ".", "i", "o">>
MailGreenhouseBeta == <<"b", "e", "t", "a", "@", "g", "r", "e", "e", "n", "h", "o", "u", "s", "e", ".", "i", "o">>
MailGmailAcme == <<"a", "c", "m", "e", ".", "h", "r", "@", "g", "m", "a", "i", "l", ".", "c", "o", "m">>

SharedInbox ==
    { [ id |-> "p1", thread_id |-> "t7", subject |-> "Your application",
        snippet |-> "sn7", sender_name |-> SenderHR, sender_email |-> MailGreenhouseAcme,
        timestamp |-> 1,
        company_name |-> NameAcmeGmbH, position |-> PosDev, summary |-> "Applied at Acme" ],
      [ id |-> "p2", thread_id |-> "t8", subject |-> "Your application",
        snippet |-> "sn8", sender_name |-> SenderBot, sender_email |-> MailGreenhouseBeta,
        timestamp |-> 2,
        company_name |-> NameBeta, position |-> None, summary |-> "" ],
      [ id |-> "p3", thread_id |-> "t9", subject |-> "Your application",
        snippet |-> "sn9", sender_name |-> SenderHR, sender_email |-> MailGmailAcme,
        timestamp |-> 3,
        company_name |-> NameAcmeGmbH, position |-> PosDev, summary |-> "Applied at Acme" ],
      [ id |-> "p4", thread_id |-> NoThread, subject |-> "Re: Your application",
        snippet |-> "sn10", sender_name |-> SenderBot, sender_email |-> MailGmail,
        timestamp |-> 4,
        company_name |-> NameBeta, position |-> None, summary |-> "" ] }

\* email_meta of a message
MetaOf(m) ==
    [ id |-> m.id, thread_id |-> m.thread_id, subject |-> m.subject,
      snippet |-> m.snippet, sender_name |-> m.sender_name,
      sender_email |-> m.sender_email ]

\* the ApplicationData records an extraction of message m can yield
Records(m) ==
    { [ company_name |-> m.company_name, position |-> m.position,
        status |-> s, summary |-> m.summary, is_rejection |-> r ] :
      s \in ApplicationStatus, r \in BOOLEAN }

(* ------------------- app/core/config.py: extraction settings ---------- *)
\* ExtractionConfig.generic_names
generic_names ==
    { <<"H", "i", "r", "i", "n", "g", " ", "T", "e", "a", "m">>,
      <<"R", "e", "c", "r", "u", "i", "t", "i", "n", "g">>,
      <<"C", "a", "r", "e", "e", "r", "s">>,
      <<"T", "a", "l", "e", "n", "t", " ", "A", "c", "q", "u", "i", "s", "i", "t", "i", "o", "n">> }

\* ExtractionConfig.subject_patterns
subject_patterns == << >>

\* StatusKeywordsConfig
status_keywords ==
    [ rejected   |-> { <<"r", "e", "g", "r", "e", "t">>,
                      <<"u", "n", "f", "o", "r", "t", "u", "n", "a", "t", "e", "l", "y">>,
                      <<"n", "o", "t", " ", "m", "o", "v", "i", "n", "g", " ", "f", "o", "r", "w", "a", "r", "d">>,
                      <<"o", "t", "h", "e", "r", " ", "c", "a", "n", "d", "i", "d", "a", "t", "e", "s">>,
                      <<"d", "e", "c", "l", "i", "n", "e", "d">> },
      assessment |-> { <<"a", "s", "s", "e", "s", "s", "m", "e", "n", "t">>,
                      <<"c", "o", "d", "i", "n", "g", " ", "c", "h", "a", "l", "l", "e", "n", "g", "e">>,
                      <<"t", "a", "k", "e", "-", "h", "o", "m", "e">>,
                      <<"h", "a", "c", "k", "e", "r", "r", "a", "n", "k">>,
                      <<"c", "o", "d", "i", "l", "i", "t", "y">> },
      interview  |-> { <<"i", "n", "t", "e", "r", "v", "i", "e", "w">>,
                      <<"m", "e", "e", "t", " ", "w", "i", "t", "h">>,
                      <<"s", "c", "h", "e", "d", "u", "l", "e", " ", "a", " ", "t", "i", "m", "e">>,
                      <<"a", "v", "a", "i", "l", "a", "b", "i", "l", "i", "t", "y">> },
      offer      |-> { <<"o", "f", "f", "e", "r">>,
                      <<"p", "l", "e", "a", "s", "e", "d", " ", "t", "o", " ", "o", "f", "f", "e", "r">>,
                      <<"c", "o", "n", "g", "r", "a", "t", "u", "l", "a", "t", "i", "o", "n", "s">> },
      applied    |-> { <<"r", "e", "c", "e", "i", "v", "e", "d">>,
                      <<"t", "h", "a", "n", "k", " ", "y", "o", "u", " ", "f", "o", "r", " ", "a", "p", "p", "l", "y", "i", "n", "g">>,
                      <<"a", "p", "p", "l", "i", "c", "a", "t", "i", "o", "n", " ", "c", "o", "n", "f", "i", "r", "m", "a", "t", "i", "o", "n">> } ]

\* Settings.skip_emails and Settings.skip_domains as a deployment sets them
skip_emails == { <<"n", "e", "w", "s", "l", "e", "t", "t", "e", "r", "@">> }
skip_domains == { <<"S", "p", "a", "m", ".", "e", "x", "a", "m", "p", "l", "e">> }

(* ------------------- the mailbox --------------------------------------- *)
\* sender headers, subjects and bodies of the fetched messages
FromAcme == <<"A", "c", "m", "e", " ", "H", "i", "r", "i", "n", "g", " ", "<", "h", "r", "@", "a", "c", "m", "e", ".", "c", "o", "m", ">">>
FromBeta == <<"j", "o", "b", "s", "@", "b", "e", "t", "a", ".", "i", "o">>
FromWorkday == <<"\"", "W", "o", "r", "k", "d", "a", "y", "\"", " ", "<", "n", "o", "r", "e", "p", "l", "y", "@", "m", "y", "w", "o", "r", "k", "d", "a", "y", ".", "c", "o", "m", ">">>
FromNews == <<"N", "e", "w", "s", " ", "<", "N", "e", "w", "s", "l", "e", "t", "t", "e", "r", "@", "s", "p", "a", "m", ".", "e", "x", "a", "m", "p", "l", "e", ">">>
SubjUpdate == <<"U", "p", "d", "a", "t", "e">>
SubjApplication == <<"Y", "o", "u", "r", " ", "a", "p", "p", "l", "i", "c", "a", "t", "i", "o", "n">>
SubjInterview == <<"I", "n", "t", "e", "r", "v", "i", "e", "w">>
TextRegret == <<"w", "e", " ", "r", "e", "g", "r", "e", "t">>
TextDeclined == <<"d", "e", "c", "l", "i", "n", "e", "d", " ", "a", "t", " ", "B", "e", "t", "a", " ", "A", "G">>
HtmlUnfortunately == <<"<", "p", ">", "U", "n", "f", "o", "r", "t", "u", "n", "a", "t", "e", "l", "y", "<", "/", "p", ">">>
HtmlHi == <<"<", "b", ">", "h", "i", "<", "/", "b", ">">>
NameWorkday == <<"W", "o", "r", "k", "d", "a", "y">>
NameBetaAG == <<"B", "e", "t", "a", " ", "A", "G">>
MailBetaJobs == <<"j", "o", "b", "s", "@", "b", "e", "t", "a", ".", "i", "o">>
MailWorkday == <<"n", "o", "r", "e", "p", "l", "y", "@", "m", "y", "w", "o", "r", "k", "d", "a", "y", ".", "c", "o", "m">>
MailNews == <<"N", "e", "w", "s", "l", "e", "t", "t", "e", "r", "@", "s", "p", "a", "m", ".", "e", "x", "a", "m", "p", "l", "e">>
SenderAcmeHiring == <<"A", "c", "m", "e", " ", "H", "i", "r", "i", "n", "g">>
SenderNews == <<"N", "e", "w", "s">>

(* ------------------- EmailExtractor._extract_heuristic ----------------- *)
Positions(s, c) == { i \in DOMAIN s : s[i] = c }

Min(xs) == CHOOSE x \in xs : \A y \in xs : x <= y

Max(xs) == CHOOSE x \in xs : \A y \in xs : y <= x

\* s.split(c)[0]
SplitFirst(s, c) ==
    IF Positions(s, c) = {} THEN s ELSE SubSeq(s, 1, Min(Positions(s, c)) - 1)

\* s.split(c)[1], for s holding a c
SplitSecond(s, c) ==
    LET a == Min(Positions(s, c))
        later == { i \in Positions(s, c) : i > a }
    IN  SubSeq(s, a + 1, IF later = {} THEN Len(s) ELSE Min(later) - 1)

\* s.replace(c, '')
Remove(s, c) == SelectSeq(s, LAMBDA x : x # c)

\* the pattern word w (lower case) matches at s[i] under re.IGNORECASE
MatchesAt(s, i, w) ==
    /\ i >= 1
    /\ i + Len(w) - 1 <= Len(s)
    /\ Lower(SubSeq(s, i, i + Len(w) - 1)) = w

\* \s+ followed by one of the words ws matches at s[i]
SpacesThenWord(s, i, ws) ==
    /\ i \in DOMAIN s
    /\ IsSpace(s[i])
    /\ \E j \in (i + 1)..Len(s) :
          /\ \A k \in i..(j - 1) : IsSpace(s[k])
          /\ \E w \in ws : MatchesAt(s, j, w)

sender_noise ==
    { <<"h", "i", "r", "i", "n", "g">>,
      <<"t", "e", "a", "m">>,
      <<"r", "e", "c", "r", "u", "i", "t", "i", "n", "g">>,
      <<"c", "a", "r", "e", "e", "r", "s">>,
      <<"j", "o", "b", "s">>,
      <<"n", "o", "t", "i", "f", "i", "c", "a", "t", "i", "o", "n", "s">>,
      <<"v", "i", "a">>,
      <<"b", "e", "w", "e", "r", "b", "e", "r", "m", "a", "n", "a", "g", "e", "m", "e", "n", "t">>,
      <<"c", "a", "r", "e", "e", "r">>,
      <<"s", "y", "s", "t", "e", "m">>,
      <<"h", "r">> }

\* re.sub(r'(?i)\s+(hiring|team|...|hr).*', '', s): every match runs from
\* the whitespace before a noise word to the end of that line
RECURSIVE StripNoise(_)
StripNoise(s) ==
    LET hits == { i \in DOMAIN s : SpacesThenWord(s, i, sender_noise) }
    IN  IF hits = {} THEN s
        ELSE LET i == Min(hits)
                 j == Min({ k \in i..Len(s) : ~IsSpace(s[k]) })
                 nl == { k \in j..Len(s) : s[k] = "\n" }
                 e == IF nl = {} THEN Len(s) + 1 ELSE Min(nl)
             IN  SubSeq(s, 1, i - 1) \o StripNoise(SubSeq(s, e, Len(s)))

\* sender_name and email_addr of the sender header
heuristic_sender_name(sender) ==
    IF Positions(sender, "<") = {} THEN << >>
    ELSE Remove(Strip(SplitFirst(sender, "<")), "\"")

heuristic_email_addr(sender) ==
    IF Positions(sender, "<") = {} THEN sender
    ELSE Strip(Remove(SplitSecond(sender, "<"), ">"))

heuristic_domain(sender) ==
    LET email_addr == heuristic_email_addr(sender)
    IN  IF Positions(email_addr, "@") = {} THEN << >>
        ELSE Lower(SplitSecond(email_addr, "@"))

platform_domains ==
    { <<"g", "m", "a", "i", "l", ".", "c", "o", "m">>,
      <<"y", "a", "h", "o", "o", ".", "c", "o", "m">>,
      <<"o", "u", "t", "l", "o", "o", "k", ".", "c", "o", "m">>,
      <<"s", "u", "c", "c", "e", "s", "s", "f", "a", "c", "t", "o", "r", "s", ".", "e", "u">>,
      <<"s", "u", "c", "c", "e", "s", "s", "f", "a", "c", "t", "o", "r", "s", ".", "c", "o", "m">>,
      <<"g", "r", "e", "e", "n", "h", "o", "u", "s", "e", ".", "i", "o">>,
      <<"m", "y", "w", "o", "r", "k", "d", "a", "y", ".", "c", "o", "m">> }

is_platform(domain) ==
    \/ \E i \in DOMAIN platforms : Contains(domain, platforms[i])
    \/ domain \in platform_domains

\* ignore_names: generic_names and the platform names
ignore_names == generic_names \cup Range(platforms)

\* any(p in s for p in platforms)
NamesPlatform(s) == \E i \in DOMAIN platforms : Contains(s, platforms[i])

IsLetter(c) == c \in Range(UpperChars) \cup Range(LowerChars)

\* the group ([A-Z][A-Za-z0-9\s&]{2,50}) and the group after it, under
\* re.IGNORECASE: the lengths n of the part after the first letter s[g]
AtClass(c) == IsLetter(c) \/ c \in DigitChars \/ IsSpace(c) \/ c = "&"

at_tail_words ==
    { <<"s", "e">>,
      <<"g", "m", "b", "h">>,
      <<"a", "g">>,
      <<"i", "n", "c">> }

AtTail(s, t) ==
    \/ SpacesThenWord(s, t, { <<"c", "o", "r", "p", "o", "r", "a", "t", "e">> })
    \/ \E w \in at_tail_words : MatchesAt(s, t, w)
    \/ t \in DOMAIN s /\ (s[t] = "." \/ IsSpace(s[t]))
    \/ t = Len(s) + 1

AtLengths(s, g) ==
    { n \in 2..50 :
        /\ g + n <= Len(s)
        /\ \A k \in (g + 1)..(g + n) : AtClass(s[k])
        /\ AtTail(s, g + n + 1) }

\* where the name starts when \s+at\s+ matches with its "at" at s[a], else 0
AtNameStart(s, a) ==
    IF /\ a >= 2 /\ IsSpace(s[a - 1])
       /\ MatchesAt(s, a, <<"a", "t">>)
       /\ a + 2 <= Len(s) /\ IsSpace(s[a + 2])
       /\ \E k \in (a + 2)..Len(s) : ~IsSpace(s[k])
    THEN Min({ k \in (a + 2)..Len(s) : ~IsSpace(s[k]) })
    ELSE 0

\* body_match.group(1).strip() for text[:500], or None without a match
body_candidate(text) ==
    LET s == SubSeq(text, 1, IF Len(text) < 500 THEN Len(text) ELSE 500)
        hits == { a \in DOMAIN s :
                    LET g == AtNameStart(s, a)
                    IN  g # 0 /\ IsLetter(s[g]) /\ AtLengths(s, g) # {} }
    IN  IF hits = {} THEN None
        ELSE LET g == AtNameStart(s, Min(hits))
             IN  Strip(SubSeq(s, g, g + Max(AtLengths(s, g))))

\* the greetings of the signature pattern, in the order of its alternatives
\* (lower case; the pattern is matched under re.IGNORECASE)
greetings ==
    << <<"v", "i", "e", "l", "e", " ", "g", "r", "ü", "ß", "e">>,
       <<"m", "i", "t", " ", "f", "r", "e", "u", "n", "d", "l", "i", "c", "h", "e", "n", " ", "g", "r", "ü", "ß", "e", "n">>,
       <<"h", "e", "r", "z", "l", "i", "c", "h", "e", " ", "g", "r", "ü", "ß", "e">>,
       <<"b", "e", "s", "t", " ", "r", "e", "g", "a", "r", "d", "s">>,
       <<"g", "r", "e", "e", "t", "i", "n", "g", "s">>,
       <<"t", "e", "a", "m">>,
       <<"y", "o", "u", "r", "s", " ", "s", "i", "n", "c", "e", "r", "e", "l", "y">> >>

pronouns ==
    << <<"d", "e", "i", "n">>,
       <<"i", "h", "r">>,
       <<"i", "h", "r", "e">> >>

\* the position after \s*,?\s+ matched at s[x], or 0 when it does not match
AfterComma(s, x) ==
    LET sp(i) == IF \E k \in i..Len(s) : ~IsSpace(s[k])
                 THEN Min({ k \in i..Len(s) : ~IsSpace(s[k]) })
                 ELSE Len(s) + 1
        c == sp(x)
    IN  IF c <= Len(s) /\ s[c] = "," /\ c + 1 <= Len(s) /\ IsSpace(s[c + 1])
        THEN sp(c + 1)
        ELSE IF c > x THEN c ELSE 0

\* the position after (?:dein|Ihr|Ihre)?\s* matched at s[y]
AfterPronoun(s, y) ==
    LET ps == { i \in DOMAIN pronouns : MatchesAt(s, y, pronouns[i]) }
        z == IF ps = {} THEN y ELSE y + Len(pronouns[Min(ps)])
    IN  IF \E k \in z..Len(s) : ~IsSpace(s[k])
        THEN Min({ k \in z..Len(s) : ~IsSpace(s[k]) })
        ELSE Len(s) + 1

\* [\r\n]|$ matches at s[z]
LineEnd(s, z) ==
    \/ z = Len(s) + 1
    \/ z \in DOMAIN s /\ s[z] = "\n"

\* (?:\s+Team)?(?:[\r\n]|$) matches at s[z]
SignatureEnd(s, z) ==
    \/ LineEnd(s, z)
    \/ \E j \in (z + 1)..Len(s) :
          /\ \A k \in z..(j - 1) : IsSpace(s[k])
          /\ MatchesAt(s, j, <<"t", "e", "a", "m">>)
          /\ LineEnd(s, j + 4)

\* sig_match.group(2).strip() for text[-1000:], or None without a match
signature_candidate(text) ==
    LET s == SubSeq(text, IF Len(text) > 1000 THEN Len(text) - 999 ELSE 1, Len(text))
        after(p) ==
            LET gs == { i \in DOMAIN greetings :
                          /\ MatchesAt(s, p, greetings[i])
                          /\ AfterComma(s, p + Len(greetings[i])) # 0 }
            IN  IF gs = {} THEN 0 ELSE AfterComma(s, p + Len(greetings[Min(gs)]))
        hits == { p \in DOMAIN s : after(p) # 0 }
    IN  IF hits = {} THEN None
        ELSE LET y == AfterPronoun(s, after(Min(hits)))
                 z == Min({ k \in y..(Len(s) + 1) : SignatureEnd(s, k) })
             IN  Strip(SubSeq(s, y, z - 1))

\* the last non-empty line of the text, stripped, or None
last_line(text) ==
    LET ink == { i \in DOMAIN text : ~IsSpace(text[i]) }
    IN  IF ink = {} THEN None
        ELSE LET k == Max(ink)
                 before == { i \in 1..k : text[i] = "\n" }
                 later == { i \in k..Len(text) : text[i] = "\n" }
                 lo == IF before = {} THEN 1 ELSE Max(before) + 1
                 hi == IF later = {} THEN Len(text) ELSE Min(later) - 1
             IN  Strip(SubSeq(text, lo, hi))

\* re.search(r'http|@', s)
LooksLikeAddress(s) == Contains(s, <<"h", "t", "t", "p">>) \/ Contains(s, <<"@">>)

HeuristicSummary == "Extracted via heuristics (APPLIED)"

\* company after the sender block: clean is the sender name without its
\* noise words
company_from_sender(company, sender_name, clean, domain) ==
    IF /\ is_platform(domain) \/ company = UnknownName
       /\ sender_name # None
       /\ clean # None
       /\ Lower(clean) \notin ignore_names
    THEN clean ELSE company

\* company after the "at [Company]" block: potential is the stripped group,
\* None without a match
company_from_body(company, text, potential) ==
    IF /\ company = UnknownName
       /\ text # None
       /\ potential # None
       /\ Lower(potential) \notin ignore_names
       /\ ~NamesPlatform(Lower(potential))
    THEN potential ELSE company

\* company after the signature block
company_from_signature(company, text, potential) ==
    IF /\ company = UnknownName
       /\ text # None
       /\ potential # None
       /\ Lower(potential) \notin ignore_names
       /\ Len(potential) < 50
    THEN potential ELSE company

\* company after the last-line fallback: line is the last non-empty line
company_from_last_line(company, text, line) ==
    IF /\ company = UnknownName
       /\ text # None
       /\ line # None
       /\ 3 < Len(line)
       /\ Len(line) < 50
       /\ ~NamesPlatform(Lower(line))
       /\ Lower(line) \notin ignore_names
       /\ ~LooksLikeAddress(line)
    THEN line ELSE company

\* company of _extract_heuristic; the configured subject_patterns are empty
heuristic_company(subject, sender, text) ==
    company_from_last_line(
        company_from_signature(
            company_from_body(
                company_from_sender(UnknownName,
                                    heuristic_sender_name(sender),
                                    Strip(StripNoise(heuristic_sender_name(sender))),
                                    heuristic_domain(sender)),
                text, body_candidate(text)),
            text, signature_candidate(text)),
        text, last_line(text))

\* the ApplicationData built by _extract_heuristic for company
heuristic_record(company) ==
    [ company_name |-> company, position |-> None, status |-> "APPLIED",
      summary |-> HeuristicSummary, is_rejection |-> FALSE ]

(* ------------------- SyncService._process_message: the sender ---------- *)
\* re.match(r'^(.*?)\s*<(.+)>', sender_full): the lengths of group 1 for
\* which the rest of the pattern matches
SenderMatches(s) ==
    { i \in 0..Len(s) :
        /\ \A k \in 1..i : s[k] # "\n"
        /\ \E l \in (i + 1)..Len(s) :
              /\ s[l] = "<"
              /\ \A k \in (i + 1)..(l - 1) : IsSpace(s[k])
              /\ \E r \in (l + 2)..Len(s) :
                    /\ s[r] = ">"
                    /\ \A k \in (l + 1)..(r - 1) : s[k] # "\n" }

\* (sender_name, sender_email) of the sender header
parse_sender(sender_full) ==
    IF Positions(sender_full, "<") = {} \/ SenderMatches(sender_full) = {}
    THEN [ sender_name |-> None, sender_email |-> sender_full ]
    ELSE LET i == Min(SenderMatches(sender_full))
             l == Min({ k \in (i + 1)..Len(sender_full) : sender_full[k] = "<" })
             r == Max({ k \in (l + 2)..Len(sender_full) :
                          /\ sender_full[k] = ">"
                          /\ \A j \in (l + 1)..(k - 1) : sender_full[j] # "\n" })
         IN  [ sender_name |-> Remove(Strip(SubSeq(sender_full, 1, i)), "\""),
               sender_email |-> Strip(SubSeq(sender_full, l + 1, r - 1)) ]

\* any(x.lower() in sender_email.lower() for x in skip_emails), and the same
\* for skip_domains
should_skip(sender_email) ==
    \/ \E x \in skip_emails : Contains(Lower(sender_email), Lower(x))
    \/ \E x \in skip_domains : Contains(Lower(sender_email), Lower(x))

\* The messages batch_get_message_bodies returns: the dictionaries of
\* _parse_message_response, with the thread id of the message list.
Mailbox ==
    { [ id |-> "g1", threadId |-> "t1", subject |-> SubjUpdate, sender |-> FromAcme,
        text |-> TextRegret, html |-> None, internalDate |-> 1, snippet |-> "sn1" ],
      [ id |-> "g2", threadId |-> "t1", subject |-> SubjApplication, sender |-> FromBeta,
        text |-> None, html |-> HtmlUnfortunately, internalDate |-> 2, snippet |-> "sn2" ],
      [ id |-> "g3", threadId |-> "t2", subject |-> SubjInterview, sender |-> FromWorkday,
        text |-> TextDeclined, html |-> HtmlHi, internalDate |-> 3, snippet |-> "sn3" ],
      [ id |-> "g4", threadId |-> "t3", subject |-> SubjUpdate, sender |-> FromNews,
        text |-> None, html |-> HtmlHi, internalDate |-> 4, snippet |-> "sn4" ] }

MessageIds == { m.id : m \in Mailbox }

\* further messages, one for each way through _refine_status that Mailbox
\* does not take: an applied keyword in the subject, an assessment keyword in
\* the body, an offer keyword next to an interview keyword
SubjReceived == <<"Y", "o", "u", "r", " ", "a", "p", "p", "l", "i", "c", "a", "t", "i", "o", "n", " ", "a", "t", " ", "A", "c", "m", "e", " ", "w", "a", "s", " ", "r", "e", "c", "e", "i", "v", "e", "d">>
FromNotifications == <<"n", "o", "t", "i", "f", "i", "c", "a", "t", "i", "o", "n", "s", "@", "w", "o", "r", "k", "d", "a", "y", ".", "c", "o", "m">>
TextChallenge == <<"c", "o", "d", "i", "n", "g", " ", "c", "h", "a", "l", "l", "e", "n", "g", "e">>
TextOffer == <<"o", "u", "r", " ", "o", "f", "f", "e", "r">>

KeywordMails ==
    { [ id |-> "k1", threadId |-> "t4", subject |-> SubjReceived,
        sender |-> FromNotifications,
        text |-> None, html |-> None, internalDate |-> 5, snippet |-> "sn5" ],
      [ id |-> "k2", threadId |-> "t5", subject |-> SubjUpdate, sender |-> FromAcme,
        text |-> TextChallenge, html |-> None, internalDate |-> 6, snippet |-> "sn6" ],
      [ id |-> "k3", threadId |-> "t6", subject |-> SubjInterview, sender |-> FromBeta,
        text |-> TextOffer, html |-> None, internalDate |-> 7, snippet |-> "sn7" ] }

\* every message an extract call of the model is made for
Corpus == Mailbox \cup KeywordMails

Message(id) == CHOOSE m \in Corpus : m.id = id

\* effective_body = body_html if body_html else body_text
effective_body(m) == IF m.html # None THEN m.html ELSE m.text

(* ------------------- tables of the extractor's string functions -------- *)
SearchTexts ==
    { << m.subject, effective_body(m) >> : m \in Corpus }
        \cup { << m.subject, m.text >> : m \in Corpus }

\* any(w.lower() in (subject + " " + text).lower() for w in keywords)
KeywordIn(keywords, subject, text) ==
    \E w \in keywords : Contains(Lower(subject \o << " " >> \o text), Lower(w))

KeywordMemo ==
    [ st \in SearchTexts |->
        [ k \in DOMAIN status_keywords |-> KeywordIn(status_keywords[k], st[1], st[2]) ] ]

HeuristicInputs ==
    { << m.subject, m.sender, m.text >> : m \in Corpus }
        \cup { << None, m.sender, effective_body(m) >> : m \in Corpus }

HeuristicMemo ==
    [ h \in HeuristicInputs |-> heuristic_company(h[1], h[2], h[3]) ]

\* _extract_heuristic(subject, sender, text)
extract_heuristic(subject, sender, text) ==
    heuristic_record(HeuristicMemo[<< subject, sender, text >>])

\* the employer names a provider answers with
AnswerNames == { NameAcmeGmbH, NameWorkday, UnknownName }

\* any(p.lower() == name.lower() for p in platforms)
IsPlatformName(name) == \E i \in DOMAIN platforms : Lower(platforms[i]) = Lower(name)

PlatformNameMemo == [ n \in AnswerNames |-> IsPlatformName(n) ]

SenderMemo == [ s \in { m.sender : m \in Mailbox } |-> parse_sender(s) ]

SkipMemo == [ s \in { m.sender : m \in Mailbox } |-> should_skip(SenderMemo[s].sender_email) ]

(* ------------------- EmailExtractor._refine_company -------------------- *)
\* data with the employer of the heuristic record, unless that is "Unknown"
with_heuristic_company(data, heuristic) ==
    IF heuristic.company_name # UnknownName
    THEN [ data EXCEPT !.company_name = heuristic.company_name ]
    ELSE data

refine_company(data, sender, text) ==
    IF PlatformNameMemo[data.company_name]
    THEN with_heuristic_company(data, extract_heuristic(None, sender, text))
    ELSE data

(* ------------------- EmailExtractor._refine_status --------------------- *)
\* every status taken for weak
weak_statuses_all == ApplicationStatus

weak_statuses == { "PENDING", "COMMUNICATION", "UNKNOWN" }

\* no status of a provider trusted
trusts_provider_never(status) == FALSE

\* 4. Trust AI for strong statuses if no explicit contradiction above
trusts_provider(status) ==
    status \notin { "APPLIED", "PENDING", "COMMUNICATION", "UNKNOWN" }

refine_status(data, subject, text) ==
    LET hit == KeywordMemo[<< subject, text >>]
    IN  IF hit.rejected
        THEN [ data EXCEPT !.status = "REJECTED", !.is_rejection = TRUE ]
        ELSE IF hit.assessment
        THEN [ data EXCEPT !.status = "ASSESSMENT" ]
        ELSE IF hit.applied
        THEN IF data.status \in weak_statuses
             THEN [ data EXCEPT !.status = "APPLIED" ] ELSE data
        ELSE IF trusts_provider(data.status)
        THEN data
        ELSE IF hit.offer
        THEN [ data EXCEPT !.status = "OFFER" ]
        ELSE IF hit.interview
        THEN [ data EXCEPT !.status = "INTERVIEW" ]
        ELSE data

(* ------------------- EmailExtractor.__init__ and extract --------------- *)
\* the provider classes, in the order __init__ appends them
provider_order ==
    << "LocalProvider", "ClaudeProvider", "GeminiProvider", "OpenAIProvider" >>

\* the instance __init__ builds when the model file or API key of exactly the
\* providers in available is present; config is the fixed configuration above
new_extractor(available) ==
    [ providers |-> SelectSeq(provider_order, LAMBDA p : p \in available),
      failed_providers |-> {} ]

\* the messages of the exceptions a provider raises
ErrQuota == <<"Q", "u", "o", "t", "a", " ", "e", "x", "c", "e", "e", "d", "e", "d">>
ErrDown == <<"C", "l", "a", "u", "d", "e", " ", "D", "o", "w", "n">>
ProviderErrors == { ErrQuota, ErrDown }

quota_marks ==
    { <<"q", "u", "o", "t", "a">>,
      <<"4", "2", "9">>,
      <<"4", "0", "3">>,
      <<"l", "i", "m", "i", "t">> }

\* "quota" in err_msg or "429" in err_msg or "403" in err_msg or "limit" in err_msg
QuotaMemo ==
    [ e \in ProviderErrors |-> \E w \in quota_marks : Contains(Lower(e), w) ]

is_quota_error(e) == QuotaMemo[e]

\* the records a provider returns for a message: every status and rejection
\* flag under one employer name, and the other names with status UNKNOWN
\* (position, summary and next_step do not enter the orchestration)
ProviderAnswers ==
    { [ company_name |-> NameAcmeGmbH, position |-> PosDev, status |-> s,
        summary |-> "Provider summary", is_rejection |-> r ] :
      s \in ApplicationStatus, r \in BOOLEAN }
    \cup
    { [ company_name |-> n, position |-> PosDev, status |-> "UNKNOWN",
        summary |-> "Provider summary", is_rejection |-> FALSE ] :
      n \in AnswerNames }

\* the absence of a record
NoRecord ==
    [ company_name |-> None, position |-> None, status |-> "UNKNOWN",
      summary |-> "", is_rejection |-> FALSE ]

\* a handler that catches the quota errors only
handled_quota_only(e) == is_quota_error(e)

\* except Exception as e: every exception of provider.extract is handled
\* inside the loop
handled(e) == TRUE

\* failed_providers without the bookkeeping of quota errors
mark_failed_never(failed, provider_name, e) == failed

\* self.failed_providers.add(provider_name) for a quota error
mark_failed(failed, provider_name, e) ==
    IF is_quota_error(e) THEN failed \cup { provider_name } ELSE failed

\* The outcomes of the provider loop of extract from providers[i] on, with
\* the providers failed so far and the provider calls made so far (each with
\* the message of the exception it raised, None when it returned).
RECURSIVE provider_loop(_, _, _, _, _)
provider_loop(providers, i, failed, invoked, m) ==
    IF i > Len(providers)
    THEN { [ failed_providers |-> failed, invoked |-> invoked, source |-> "heuristic",
             result |-> refine_status(extract_heuristic(m.subject, m.sender, m.text),
                                      m.subject, m.text) ] }
    ELSE IF providers[i] \in failed
    THEN provider_loop(providers, i + 1, failed, invoked, m)
    ELSE LET provider_name == providers[i]
             body == effective_body(m)
             called(e) == Append(invoked, [ provider |-> provider_name, error |-> e ])
         IN  { [ failed_providers |-> failed, invoked |-> called(None),
                 source |-> provider_name,
                 result |-> refine_status(refine_company(answer, m.sender, body),
                                          m.subject, body) ] :
               answer \in ProviderAnswers }
             \cup UNION {
                   IF handled(e)
                   THEN provider_loop(providers, i + 1,
                                      mark_failed(failed, provider_name, e),
                                      called(e), m)
                   ELSE { [ failed_providers |-> failed, invoked |-> called(e),
                            source |-> "exception", result |-> NoRecord ] } :
                   e \in ProviderErrors }

Reverse(s) == [ i \in DOMAIN s |-> s[Len(s) + 1 - i] ]

\* extract going through the providers from the last to the first
extract_outcomes_reversed(ex, m) ==
    provider_loop(Reverse(ex.providers), 1, ex.failed_providers, << >>, m)

\* extract(subject, sender, body_text, body_html) on the instance ex
extract_outcomes(ex, m) ==
    provider_loop(ex.providers, 1, ex.failed_providers, << >>, m)

(* ------------------- _extract_heuristic: the subject patterns ---------- *)
\* A configured entry of subject_patterns: the regular expression
\* before(.+?)after  with literal text before and after, and its group
ScenarioPatterns ==
    << [ before |-> <<"a", "p", "p", "l", "i", "c", "a", "t", "i", "o", "n", " ", "a", "t", " ">>,
         after |-> <<" ", "w", "a", "s">>,
         group |-> 1 ] >>

\* the subject_patterns an instance is configured with: the default and the
\* one entry above
PatternConfigs == { subject_patterns, ScenarioPatterns }

subject_noise ==
    { <<"a", "p", "p", "l", "i", "c", "a", "t", "i", "o", "n">>,
      <<"r", "o", "l", "e">>,
      <<"j", "o", "b">>,
      <<"p", "o", "s", "i", "t", "i", "o", "n">>,
      <<"u", "p", "d", "a", "t", "e">> }

\* re.sub(r'(?i)\s+(application|role|job|position|update).*', '', s)
RECURSIVE StripSubjectNoise(_)
StripSubjectNoise(s) ==
    LET hits == { i \in DOMAIN s : SpacesThenWord(s, i, subject_noise) }
    IN  IF hits = {} THEN s
        ELSE LET i == Min(hits)
                 j == Min({ k \in i..Len(s) : ~IsSpace(s[k]) })
                 nl == { k \in j..Len(s) : s[k] = "\n" }
                 e == IF nl = {} THEN Len(s) + 1 ELSE Min(nl)
             IN  SubSeq(s, 1, i - 1) \o StripSubjectNoise(SubSeq(s, e, Len(s)))

\* the literal w stands at s[i]
LiteralAt(s, i, w) ==
    /\ i >= 1
    /\ i + Len(w) - 1 <= Len(s)
    /\ SubSeq(s, i, i + Len(w) - 1) = w

\* the lengths n of a group (.+?) for which entry matches subject from i on
GroupLengths(entry, subject, i) ==
    { n \in 1..Len(subject) :
        /\ LiteralAt(subject, i, entry.before)
        /\ i + Len(entry.before) + n - 1 <= Len(subject)
        /\ \A k \in (i + Len(entry.before))..(i + Len(entry.before) + n - 1) :
              subject[k] # "\n"
        /\ LiteralAt(subject, i + Len(entry.before) + n, entry.after) }

\* m.group(entry.get('group', 1)) of re.search(entry['pattern'], subject): the
\* leftmost match with the shortest group; the empty set when m is None
subject_match(entry, subject) ==
    LET starts == { i \in 1..Len(subject) : GroupLengths(entry, subject, i) # {} }
    IN  IF starts = {} THEN {}
        ELSE LET i == Min(starts)
                 n == Min(GroupLengths(entry, subject, i))
             IN  { SubSeq(subject, i + Len(entry.before), i + Len(entry.before) + n - 1) }

\* the loop over subject_patterns that ends _extract_heuristic's search
RECURSIVE company_from_subject(_, _, _)
company_from_subject(company, subject, patterns) ==
    IF company # UnknownName \/ patterns = << >> THEN company
    ELSE LET found == subject_match(Head(patterns), subject)
         IN  IF found = {}
             THEN company_from_subject(company, subject, Tail(patterns))
             ELSE LET res == Strip(StripSubjectNoise(Strip(CHOOSE g \in found : TRUE)))
                  IN  IF Lower(res) \notin ignore_names THEN res
                      ELSE company_from_subject(company, subject, Tail(patterns))

SubjectMemo ==
    [ p \in PatternConfigs |->
        [ subject \in { m.subject : m \in Corpus } \cup { None } |->
            company_from_subject(UnknownName, subject, p) ] ]

\* _extract_heuristic(subject, sender, text) of an instance configured with
\* patterns: the subject patterns are tried last, and only for "Unknown"
extract_heuristic_configured(patterns, subject, sender, text) ==
    LET found == extract_heuristic(subject, sender, text)
    IN  IF found.company_name = UnknownName
        THEN [ found EXCEPT !.company_name = SubjectMemo[patterns][subject] ]
        ELSE found

\* _refine_company(data, sender, text) of an instance configured with patterns
refine_company_configured(patterns, data, sender, text) ==
    IF PlatformNameMemo[data.company_name]
    THEN with_heuristic_company(data,
             extract_heuristic_configured(patterns, None, sender, text))
    ELSE data

(* ------------------- ApplicationData and sanitize_input ---------------- *)
\* The values under a key of the dictionary a provider parsed: Absent for a
\* key that is not in it, JNull for None, a string, True or False.
Absent == [ kind |-> "absent", val |-> None ]
JNull == [ kind |-> "null", val |-> None ]
JStr(s) == [ kind |-> "str", val |-> s ]
JTrue == [ kind |-> "true", val |-> None ]
JFalse == [ kind |-> "false", val |-> None ]

\* data.get(key)
Get(data, key) == IF data[key] = Absent THEN JNull ELSE data[key]

\* bool(v)
Truthy(v) == v.kind = "true" \/ (v.kind = "str" /\ v.val # None)

\* str.upper()
UpperChar(c) ==
    IF c \in Range(LowerChars)
    THEN UpperChars[CHOOSE i \in DOMAIN LowerChars : LowerChars[i] = c]
    ELSE c

Upper(s) == [ i \in DOMAIN s |-> UpperChar(s[i]) ]

\* ApplicationStatus.all_values(): the value of each member
all_values ==
    [ member \in ApplicationStatus |->
        CASE member = "APPLIED" -> <<"A", "P", "P", "L", "I", "E", "D">>
          [] member = "INTERVIEW" -> <<"I", "N", "T", "E", "R", "V", "I", "E", "W">>
          [] member = "ASSESSMENT" -> <<"A", "S", "S", "E", "S", "S", "M", "E", "N", "T">>
          [] member = "PENDING" -> <<"P", "E", "N", "D", "I", "N", "G">>
          [] member = "COMMUNICATION" -> <<"C", "O", "M", "M", "U", "N", "I", "C", "A", "T", "I", "O", "N">>
          [] member = "OFFER" -> <<"O", "F", "F", "E", "R">>
          [] member = "REJECTED" -> <<"R", "E", "J", "E", "C", "T", "E", "D">>
          [] member = "UNKNOWN" -> <<"U", "N", "K", "N", "O", "W", "N">> ]

SummaryNone == <<"N", "o", " ", "s", "u", "m", "m", "a", "r", "y", " ", "e", "x", "t", "r", "a", "c", "t", "e", "d">>
SummaryDefault == <<"N", "o", " ", "s", "u", "m", "m", "a", "r", "y", " ", "p", "r", "o", "v", "i", "d", "e", "d">>
SummaryGiven == <<"O", "f", "f", "e", "r", " ", "m", "a", "d", "e">>
NextStepGiven == <<"W", "a", "i", "t">>

\* # Fix Status
sanitized_status(status_val) ==
    IF Truthy(status_val) /\ status_val.kind = "str"
    THEN LET status_upper == Strip(Upper(status_val.val))
         IN  IF \E member \in ApplicationStatus : all_values[member] = status_upper
             THEN CHOOSE member \in ApplicationStatus : all_values[member] = status_upper
             ELSE "UNKNOWN"
    ELSE "UNKNOWN"

\* the dictionary sanitize_input returns for the dictionary data
sanitize_input(data) ==
    LET company_name == IF data.employer # Absent /\ data.company_name = Absent
                        THEN data.employer ELSE data.company_name
        summary == IF data.description # Absent /\ data.summary = Absent
                   THEN data.description ELSE data.summary
    IN  [ company_name |-> company_name,
          status |-> sanitized_status(Get(data, "status")),
          summary |-> IF summary = Absent \/ ~Truthy(summary) \/ summary = JStr(SummaryNone)
                      THEN JStr(SummaryDefault) ELSE summary,
          is_rejection |-> IF Get(data, "is_rejection") = JNull
                           THEN JFalse ELSE data.is_rejection,
          position |-> Get(data, "position"),
          next_step |-> Get(data, "next_step") ]

\* the fields of ApplicationData accept the sanitized dictionary d:
\* company_name is a required str, is_rejection a bool, the others Optional[str]
fields_valid(d) ==
    /\ d.company_name.kind = "str"
    /\ d.summary.kind \in { "null", "str" }
    /\ d.is_rejection.kind \in { "true", "false" }
    /\ d.position.kind \in { "null", "str" }
    /\ d.next_step.kind \in { "null", "str" }

\* ApplicationData(**data): the instance, or the ValidationError raised
ApplicationData(data) ==
    LET d == sanitize_input(data)
    IN  IF fields_valid(d)
        THEN [ raised |-> "none",
               company_name |-> d.company_name.val,
               position |-> d.position,
               status |-> d.status,
               summary |-> d.summary,
               is_rejection |-> d.is_rejection.kind = "true",
               next_step |-> d.next_step ]
        ELSE [ raised |-> "ValidationError",
               company_name |-> None, position |-> JNull, status |-> "UNKNOWN",
               summary |-> JNull, is_rejection |-> FALSE, next_step |-> JNull ]

\* the dictionaries a provider hands to ApplicationData
FieldMaps ==
    [ employer : { Absent, JNull, JStr(NameAcme) },
      company_name : { Absent, JNull, JStr(NameAcmeGmbH) },
      status : { Absent, JNull, JStr(None),
                 JStr(<<"A", "p", "p", "l", "i", "e", "d">>),
                 JStr(<<" ", "r", "e", "j", "e", "c", "t", "e", "d", " ">>),
                 JStr(<<"O", "F", "F", "E", "R">>),
                 JStr(<<"d", "o", "n", "e">>) },
      description : { Absent, JStr(SummaryGiven) },
      summary : { Absent, JNull, JStr(SummaryNone), JStr(SummaryGiven) },
      is_rejection : { Absent, JNull, JTrue, JFalse },
      position : { Absent, JStr(PosDev) },
      next_step : { Absent, JStr(NextStepGiven) } ]

\* the dictionary with no key
EmptyMap ==
    [ employer |-> Absent, company_name |-> Absent, status |-> Absent,
      description |-> Absent, summary |-> Absent, is_rejection |-> Absent,
      position |-> Absent, next_step |-> Absent ]

\* no instance built
NoInstance ==
    [ raised |-> "none", company_name |-> None, position |-> JNull, status |-> "UNKNOWN",
      summary |-> JNull, is_rejection |-> FALSE, next_step |-> JNull ]

NoBuilt == [ made |-> FALSE, data |-> EmptyMap, instance |-> NoInstance ]

\* no function called
NoEvaluation == [ fn |-> "none", args |-> << >>, done |-> FALSE, result |-> None ]

(* ------------------------- memoised string functions ------------------ *)
\* Every string the store or a call holds is one of KnownStrings, so the
\* string functions of the resolver are tabulated once over them.
KnownStrings ==
    { None, UnknownName, UnknownPosition }
        \cup { m.company_name : m \in Inbox } \cup { m.sender_email : m \in Inbox }
        \cup { m.position : m \in Inbox } \cup { m.sender_name : m \in Inbox }
        \cup { SenderAcmeHiring, NameWorkday, SenderNews }
        \cup { MailBetaJobs, MailWorkday, MailNews }
        \cup { NameAcmeGmbH, NameWorkday, PosDev }
        \cup { NameAcme, HtmlUnfortunately }
        \cup { MailGreenhouseAcme, MailGreenhouseBeta, MailGmailAcme }

LowerMemo == [ s \in KnownStrings |-> Lower(s) ]
\* (s or "").lower()
lower(s) == LowerMemo[s]

DomainMemo == [ s \in KnownStrings |-> DomainOf(Lower(s)) ]
\* (s or "").lower().split('@')[1], or "" without an '@'
domain_of_lower(s) == DomainMemo[s]

NormMemo == [ s \in KnownStrings |-> normalize_company(s) ]

NameTierMemo ==
    [ p \in KnownStrings \X KnownStrings |-> name_tier(NormMemo[p[1]], NormMemo[p[2]]) ]
\* tier 4 for a record named new_name against a process named app_name
name_match(new_name, app_name) ==
    NameTierMemo[<<new_name, app_name>>]

\* "Detect shared platform" of _find_existing_application
SharedPlatform(sender_domain) ==
    /\ \E i \in DOMAIN platforms :
          \/ platforms[i] = sender_domain
          \/ EndsWith(sender_domain, << "." >> \o platforms[i])
    /\ sender_domain \in shared_platform_anchors

SharedPlatformMemo == [ s \in KnownStrings |-> SharedPlatform(DomainMemo[s]) ]
\* is_shared_platform for the sender address s
is_shared_platform(s) ==
    SharedPlatformMemo[s]

(* ------------------------- the store ----------------------------------- *)
VARIABLES
    apps,            \* JobApplication rows; the row id is the index
    events,          \* ApplicationEventLog rows, in insertion order
    companies,       \* Company rows; the row id is the index
    company_emails,  \* CompanyEmail rows
    last,            \* the last process_extraction call: its arguments and
                     \* what the resolver returned
    extractor,       \* the EmailExtractor instance: its attributes
    extract_log,     \* the extract calls made on it one by one: how many,
                     \* how many of the latest in a row ended in the
                     \* heuristics, and the provider calls and the result
                     \* of the last one
    built,           \* an ApplicationData(**data) construction: the field map
                     \* of the provider and what the constructor returned
    evaluated,       \* a call of a function that reads no stored row: its
                     \* name, its arguments and what it returned
    processed,       \* ProcessedEmail rows
    sync             \* the run_sync calls: the position of the current run
                     \* in its batch, its counters, the last _process_message
                     \* call, and the messages whose writes were committed

store_vars == << apps, events, companies, company_emails, last >>

extractor_vars == << extractor, extract_log, built >>

sync_vars == << processed, sync >>

vars == << apps, events, companies, company_emails, last, extractor, extract_log,
           built, evaluated, processed, sync >>

AppIds == DOMAIN apps

\* before the first extract call
NoExtract ==
    [ calls |-> 0, fallbacks |-> 0, message |-> "", invoked |-> << >>,
      source |-> "none", result |-> NoRecord ]

\* before the first _process_message call
NoMessage ==
    [ id |-> "", outcome |-> "none", company_name |-> None, extracted |-> FALSE,
      passed |-> FALSE ]

\* before the first run_sync call
NoSync ==
    [ runs |-> 0, active |-> FALSE, ended |-> "none", fetched |-> << >>,
      queue |-> << >>, failed |-> {}, new_emails_count |-> 0, errors_count |-> 0,
      last |-> NoMessage, applied |-> {} ]

NoCall ==
    [ kind |-> "init", data |-> [ status |-> "UNKNOWN", is_rejection |-> FALSE ],
      meta |-> [ thread_id |-> NoThread ], timestamp |-> 0,
      existing_app |-> 0, is_app_active |-> FALSE, created |-> 0 ]

Init ==
    /\ apps = << >>
    /\ events = << >>
    /\ companies = << >>
    /\ company_emails = << >>
    /\ last = NoCall
    /\ extractor = new_extractor({})
    /\ extract_log = NoExtract
    /\ built = NoBuilt
    /\ evaluated = NoEvaluation
    /\ processed = {}
    /\ sync = NoSync

(* ------------- ApplicationProcessor._find_existing_application -------- *)
\* is_match(app), tiers 2 to 5; email_to_company_id is read from
\* company_emails (CompanyEmail.email is unique)
is_match(app, data, meta) ==
    LET sender_email  == lower(meta.sender_email)
        sender_domain == domain_of_lower(meta.sender_email)
        shared        == is_shared_platform(meta.sender_email)
        app_email     == lower(app.sender_email)
        app_domain    == domain_of_lower(app.sender_email)
    IN  \/ /\ sender_email # None /\ app_email # None
           /\ sender_email = app_email
           /\ sender_email \notin shared_emails
        \/ /\ \E i \in DOMAIN company_emails :
                 /\ company_emails[i].email = sender_email
                 /\ company_emails[i].company_id = app.company_id
           /\ sender_email \notin shared_emails
        \/ /\ sender_domain # None /\ app_domain # None
           /\ sender_domain = app_domain
           /\ ~shared
           /\ sender_domain \notin generic_domains
        \/ name_match(data.company_name, app.company_name)
        \/ /\ shared
           /\ app_domain = sender_domain
           /\ data.position # None /\ app.position # None
           /\ lower(data.position) = lower(app.position)
           /\ meta.sender_name # None /\ app.sender_name # None
           /\ lower(meta.sender_name) = lower(app.sender_name)

\* a resolver that returns the first match of a single pass over all rows
find_existing_application_one_pass(data, meta) ==
    LET by_thread == { a \in AppIds : apps[a].thread_id = meta.thread_id }
        matching  == { a \in AppIds : is_match(apps[a], data, meta) }
    IN  IF meta.thread_id # NoThread /\ by_thread # {} THEN by_thread
        ELSE IF matching # {} THEN matching
        ELSE { 0 }

\* The rows the resolver can return, 0 for (None, False).  A SELECT without
\* ORDER BY returns its rows in an order the database chooses, so .first()
\* and the first hit of a pass are any of the qualifying rows; the second
\* pass is sorted by last_updated, newest first.
find_existing_application(data, meta) ==
    LET by_thread == { a \in AppIds : apps[a].thread_id = meta.thread_id }
        active    == { a \in AppIds : apps[a].is_active /\ is_match(apps[a], data, meta) }
        inactive  == { a \in AppIds : ~apps[a].is_active /\ is_match(apps[a], data, meta) }
    IN  IF meta.thread_id # NoThread /\ by_thread # {} THEN by_thread
        ELSE IF active # {} THEN active
        ELSE IF inactive # {}
             THEN { a \in inactive :
                      \A b \in inactive : apps[b].last_updated <= apps[a].last_updated }
        ELSE { 0 }

(* ------------- ApplicationProcessor._get_or_create_company ------------ *)
\* an alias row added without a look at the rows there are
remember_email_unchecked(es, sender_email, id) ==
    Append(es, [ email |-> sender_email, company_id |-> id ])

\* 4. Remember this email for the company: the CompanyEmail rows after it
remember_email(es, sender_email, id) ==
    IF /\ sender_email # None
       /\ sender_email \notin shared_emails
       /\ ~\E i \in DOMAIN es : es[i].email = sender_email
    THEN Append(es, [ email |-> sender_email, company_id |-> id ])
    ELSE es

\* The outcomes of the call on the tables (cs, es): the tables after it and
\* the id of the company it returns.
get_or_create_company(cs, es, data, meta) ==
    LET name         == data.company_name
        sender_email == lower(meta.sender_email)
        raw_domain   == domain_of_lower(meta.sender_email)
        domain       == IF raw_domain \in generic_domains THEN None ELSE raw_domain
        by_name      == { c \in DOMAIN cs : cs[c].name = name }
        by_domain    ==
            IF /\ by_name = {} /\ domain # None
               /\ domain \notin shared_platform_anchors
               /\ domain \notin Range(platforms)
               /\ domain \notin create_domain_exclusions
            THEN { c \in DOMAIN cs : cs[c].domain = domain }
            ELSE {}
        found        == IF by_name # {} THEN by_name ELSE by_domain
        remember(id) == remember_email(es, sender_email, id)
    IN  IF found = {}
        THEN { [ companies |-> Append(cs, [ name |-> name, domain |-> domain ]),
                 company_emails |-> remember(Len(cs) + 1),
                 id |-> Len(cs) + 1 ] }
        ELSE { [ companies |->
                     IF domain # None /\ cs[c].domain = None
                     THEN [ cs EXCEPT ![c].domain = domain ] ELSE cs,
                 company_emails |-> remember(c),
                 id |-> c ] : c \in found }

\* log_event that writes a row only when the status changes
log_event_on_change(evs, app_id, old_s, new_s, summary, subject, timestamp) ==
    IF old_s = new_s THEN evs
    ELSE Append(evs, [ application_id |-> app_id,
                       old_status |-> old_s,
                       new_status |-> new_s,
                       summary |-> IF summary = "" THEN "No summary provided" ELSE summary,
                       email_subject |-> subject,
                       event_date |-> timestamp ])

(* ------------- ApplicationProcessor._log_event ------------------------ *)
\* log_event that records no prior status
log_event_from_none(evs, app_id, old_s, new_s, summary, subject, timestamp) ==
    Append(evs, [ application_id |-> app_id,
                  old_status |-> NoStatus,
                  new_status |-> new_s,
                  summary |-> IF summary = "" THEN "No summary provided" ELSE summary,
                  email_subject |-> subject,
                  event_date |-> timestamp ])

log_event(evs, app_id, old_s, new_s, summary, subject, timestamp) ==
    Append(evs, [ application_id |-> app_id,
                  old_status |-> old_s,
                  new_status |-> new_s,
                  summary |-> IF summary = "" THEN "No summary provided" ELSE summary,
                  email_subject |-> subject,
                  event_date |-> timestamp ])

(* ------------- ApplicationProcessor._create_application --------------- *)
\* new_application that stores the record's status as it is
new_application_keeps_unknown(company_id, data, meta, timestamp) ==
    [ company_id |-> company_id,
      company_name |-> data.company_name,
      position |-> IF data.position # None THEN data.position ELSE UnknownPosition,
      status |-> data.status,
      is_active |-> ~data.is_rejection,
      created_at |-> timestamp,
      last_updated |-> timestamp,
      email_id |-> meta.id,
      thread_id |-> meta.thread_id,
      email_subject |-> meta.subject,
      email_snippet |-> meta.snippet,
      summary |-> data.summary,
      sender_name |-> meta.sender_name,
      sender_email |-> meta.sender_email,
      reached_assessment |-> FALSE,
      reached_interview |-> FALSE ]

\* the JobApplication row built by _create_application (year, month and day
\* repeat the timestamp and notes stays None; they are left out)
new_application(company_id, data, meta, timestamp) ==
    [ company_id |-> company_id,
      company_name |-> data.company_name,
      position |-> IF data.position # None THEN data.position ELSE UnknownPosition,
      status |-> IF data.status # "UNKNOWN" THEN data.status ELSE "APPLIED",
      is_active |-> ~data.is_rejection,
      created_at |-> timestamp,
      last_updated |-> timestamp,
      email_id |-> meta.id,
      thread_id |-> meta.thread_id,
      email_subject |-> meta.subject,
      email_snippet |-> meta.snippet,
      summary |-> data.summary,
      sender_name |-> meta.sender_name,
      sender_email |-> meta.sender_email,
      reached_assessment |-> FALSE,
      reached_interview |-> FALSE ]

create_application(data, meta, timestamp) ==
    /\ Len(apps) < MaxApps
    /\ \E co \in get_or_create_company(companies, company_emails, data, meta) :
          LET new_app == new_application(co.id, data, meta, timestamp)
          IN  /\ companies' = co.companies
              /\ company_emails' = co.company_emails
              /\ apps' = Append(apps, new_app)
              /\ events' = log_event(events, Len(apps) + 1, NoStatus, new_app.status,
                                     data.summary, meta.subject, timestamp)

(* ------------- ApplicationProcessor._update_application --------------- *)
\* resolved_status taking the record's status although an override is given
resolved_status_from_record(override_status, data) == data.status

\* new_status = override_status if override_status else data.status
resolved_status(override_status, data) ==
    IF override_status # NoStatus THEN override_status ELSE data.status

\* updated_application that overwrites the message fields whatever the
\* message's age
updated_application_any_age(app, data, meta, timestamp, override_status) ==
    LET a2 == [ app EXCEPT !.status = resolved_status(override_status, data),
                           !.last_updated = timestamp,
                           !.email_id = meta.id,
                           !.email_subject = meta.subject,
                           !.email_snippet = meta.snippet,
                           !.summary = data.summary,
                           !.sender_name = meta.sender_name,
                           !.sender_email = meta.sender_email ]
        a3 == IF data.is_rejection THEN [ a2 EXCEPT !.is_active = FALSE ] ELSE a2
    IN  IF data.position # None /\ (app.position = UnknownPosition \/ app.position = None)
        THEN [ a3 EXCEPT !.position = data.position ] ELSE a3

\* updated_application that takes the active flag from the record
updated_application_reactivating(app, data, meta, timestamp, override_status) ==
    [ app EXCEPT !.status = override_status,
                 !.is_active = ~data.is_rejection,
                 !.last_updated = IF timestamp >= app.last_updated
                                  THEN timestamp ELSE app.last_updated ]

\* the row after _update_application, for a row whose company is set
updated_application(app, data, meta, timestamp, override_status) ==
    LET new_status == resolved_status(override_status, data)
        a1 == [ app EXCEPT !.status = new_status ]
        a2 == IF timestamp >= app.last_updated
              THEN [ a1 EXCEPT !.last_updated = timestamp,
                               !.email_id = meta.id,
                               !.email_subject = meta.subject,
                               !.email_snippet = meta.snippet,
                               !.summary = data.summary,
                               !.sender_name = meta.sender_name,
                               !.sender_email = meta.sender_email ]
              ELSE a1
        a3 == IF data.is_rejection THEN [ a2 EXCEPT !.is_active = FALSE ] ELSE a2
    IN  IF data.position # None /\ (app.position = UnknownPosition \/ app.position = None)
        THEN [ a3 EXCEPT !.position = data.position ] ELSE a3

\* _update_application on row id, whose current value is app, with the
\* company tables cs and es as the caller left them
update_application(id, app, cs, es, data, meta, timestamp, override_status) ==
    \E co \in IF app.company_id = 0
              THEN get_or_create_company(cs, es, data, meta)
              ELSE { [ companies |-> cs, company_emails |-> es, id |-> app.company_id ] } :
        LET app1 == [ app EXCEPT !.company_id = co.id ]
        IN  /\ companies' = co.companies
            /\ company_emails' = co.company_emails
            /\ apps' = [ apps EXCEPT
                           ![id] = updated_application(app1, data, meta, timestamp,
                                                       override_status) ]
            /\ events' = log_event(events, id, app.status,
                                   resolved_status(override_status, data),
                                   data.summary, meta.subject, timestamp)

(* ------------- ApplicationProcessor.process_extraction ---------------- *)
\* normalize_raw_status without the downgrade
raw_status_kept(status) == status

\* "Normalize Applied/Unknown to COMMUNICATION for existing apps"
normalize_raw_status(status) ==
    IF status \in { "APPLIED", "UNKNOWN" } THEN "COMMUNICATION" ELSE status

\* final_status_for_db without the rank comparison
final_status_unranked(current_status, raw_status) == raw_status

\* "Use STATUS_RANK to ensure we only upgrade status"
final_status_for_db(current_status, raw_status) ==
    IF STATUS_RANK[raw_status] > STATUS_RANK[current_status]
    THEN raw_status ELSE current_status

\* fresh_attempt_statuses with APPLIED forgotten
fresh_attempt_without_applied == { "INTERVIEW", "ASSESSMENT", "OFFER" }

\* fresh_attempt_statuses with PENDING added
fresh_attempt_with_pending == { "APPLIED", "INTERVIEW", "ASSESSMENT", "OFFER", "PENDING" }

\* the statuses that start a new application after a rejection (Case 3)
fresh_attempt_statuses == { "APPLIED", "INTERVIEW", "ASSESSMENT", "OFFER" }

\* data after the summary default of Case 2
with_default_summary(data) ==
    IF /\ data.status \in { "APPLIED", "UNKNOWN" }
       /\ data.summary \in { "", "No summary extracted" }
    THEN [ data EXCEPT !.summary = "Application update/communication" ]
    ELSE data

Call(kind, data, meta, timestamp, existing_app) ==
    [ kind |-> kind, data |-> data, meta |-> meta, timestamp |-> timestamp,
      existing_app |-> existing_app,
      is_app_active |-> IF existing_app = 0 THEN FALSE ELSE apps[existing_app].is_active,
      created |-> IF kind = "create" THEN Len(apps) + 1 ELSE 0 ]

\* Case 1: no existing application
process_new(data, meta, timestamp) ==
    /\ 0 \in find_existing_application(data, meta)
    /\ create_application(data, meta, timestamp)
    /\ last' = Call("create", data, meta, timestamp, 0)

\* process_active without the identity upgrade
process_active_without_upgrade(data, meta, timestamp) ==
    \E r \in find_existing_application(data, meta) \ { 0 } :
        /\ apps[r].is_active
        /\ update_application(r, apps[r], companies, company_emails,
                              with_default_summary(data), meta, timestamp,
                              final_status_for_db(apps[r].status,
                                                  normalize_raw_status(data.status)))
        /\ last' = Call("update", data, meta, timestamp, r)

\* Case 2: an active application exists
process_active(data, meta, timestamp) ==
    \E r \in find_existing_application(data, meta) \ { 0 } :
        /\ apps[r].is_active
        /\ LET existing_app == apps[r]
               upgrade == /\ existing_app.company_name = UnknownName
                          /\ data.company_name # UnknownName
           IN  \E co \in IF upgrade
                         THEN get_or_create_company(companies, company_emails, data, meta)
                         ELSE { [ companies |-> companies,
                                  company_emails |-> company_emails,
                                  id |-> existing_app.company_id ] } :
                   LET app1 == IF upgrade
                               THEN [ existing_app EXCEPT
                                        !.company_id = co.id,
                                        !.company_name = data.company_name ]
                               ELSE existing_app
                       raw_status == normalize_raw_status(data.status)
                   IN  update_application(r, app1, co.companies, co.company_emails,
                                          with_default_summary(data), meta, timestamp,
                                          final_status_for_db(existing_app.status, raw_status))
        /\ last' = Call("update", data, meta, timestamp, r)

\* Case 3, first branch: an inactive application exists and the record
\* starts a fresh attempt
process_fresh_attempt(data, meta, timestamp) ==
    \E r \in find_existing_application(data, meta) \ { 0 } :
        /\ ~apps[r].is_active
        /\ data.status \in fresh_attempt_statuses
        /\ create_application(data, meta, timestamp)
        /\ last' = Call("create", data, meta, timestamp, r)

\* Case 3, second branch: the inactive application is updated in place
process_inactive(data, meta, timestamp) ==
    \E r \in find_existing_application(data, meta) \ { 0 } :
        /\ ~apps[r].is_active
        /\ data.status \notin fresh_attempt_statuses
        /\ update_application(r, apps[r], companies, company_emails,
                              data, meta, timestamp, apps[r].status)
        /\ last' = Call("update", data, meta, timestamp, r)

process_extraction(data, meta, timestamp) ==
    /\ Len(events) < MaxEvents
    /\ \/ process_new(data, meta, timestamp)
       \/ process_active(data, meta, timestamp)
       \/ process_fresh_attempt(data, meta, timestamp)
       \/ process_inactive(data, meta, timestamp)

Next ==
    /\ \E m \in Inbox : \E data \in Records(m) :
          process_extraction(data, MetaOf(m), m.timestamp)
    /\ UNCHANGED << extractor_vars, evaluated, sync_vars >>

Spec == Init /\ [][Next]_vars

(* ------------- process_extraction for senders on shared domains -------- *)
SharedNext ==
    /\ \E m \in SharedInbox : \E data \in Records(m) :
          process_extraction(data, MetaOf(m), m.timestamp)
    /\ UNCHANGED << extractor_vars, evaluated, sync_vars >>

SharedSpec == Init /\ [][SharedNext]_vars

(* ------------- process_extraction for records without an employer ------ *)
\* A message whose record names no employer, a later message of its thread
\* that names one, and a message of that employer's own domain.
UnknownInbox ==
    { [ id |-> "u1", thread_id |-> "t5", subject |-> "Your application",
        snippet |-> "sn11", sender_name |-> SenderBot, sender_email |-> MailGmail,
        timestamp |-> 1,
        company_name |-> UnknownName, position |-> None, summary |-> "" ],
      [ id |-> "u2", thread_id |-> "t5", subject |-> "Re: Your application",
        snippet |-> "sn12", sender_name |-> SenderHR, sender_email |-> MailAcmeHR,
        timestamp |-> 2,
        company_name |-> NameAcmeGmbH, position |-> PosDev, summary |-> "Applied at Acme" ],
      [ id |-> "u3", thread_id |-> NoThread, subject |-> "News from Acme",
        snippet |-> "sn13", sender_name |-> SenderHR, sender_email |-> MailAcmeJobs,
        timestamp |-> 3,
        company_name |-> NameAcme, position |-> UnknownPosition,
        summary |-> "No summary extracted" ] }

UpgradeNext ==
    /\ \E m \in UnknownInbox : \E data \in Records(m) :
          process_extraction(data, MetaOf(m), m.timestamp)
    /\ UNCHANGED << extractor_vars, evaluated, sync_vars >>

UpgradeSpec == Init /\ [][UpgradeNext]_vars

(* ------------- EmailExtractor: the extract calls of one instance ------- *)
\* the provider sets an installation can have: at most three of the model
\* file and the three API keys are present
Installations == { av \in SUBSET Range(provider_order) : Cardinality(av) <= 3 }

ExtractInit ==
    /\ apps = << >>
    /\ events = << >>
    /\ companies = << >>
    /\ company_emails = << >>
    /\ last = NoCall
    /\ extractor \in { new_extractor(av) : av \in Installations }
    /\ extract_log = NoExtract
    /\ built = NoBuilt
    /\ evaluated = NoEvaluation
    /\ processed = {}
    /\ sync = NoSync

\* one call extractor.extract(m.subject, m.sender, m.text, m.html)
extract(m) ==
    /\ extract_log.calls < MaxCalls
    /\ \E o \in extract_outcomes(extractor, m) :
          /\ extractor' = [ extractor EXCEPT !.failed_providers = o.failed_providers ]
          /\ extract_log' =
                [ calls |-> extract_log.calls + 1,
                  fallbacks |-> IF o.source = "heuristic"
                                THEN extract_log.fallbacks + 1 ELSE 0,
                  message |-> m.id,
                  invoked |-> o.invoked,
                  source |-> o.source,
                  result |-> o.result ]
    /\ UNCHANGED << store_vars, built, evaluated, sync_vars >>

ExtractNext == \E m \in Mailbox : extract(m)

ExtractSpec == ExtractInit /\ [][ExtractNext]_vars

(* ------------- EmailExtractor: extract under a configuration ----------- *)
\* the installations and configurations of the instances below
ConfiguredInstallations ==
    { {}, { "ClaudeProvider" }, { "ClaudeProvider", "OpenAIProvider" } }

\* EmailExtractor(config): the instance of new_extractor with the
\* subject_patterns of its configuration
configured_extractor(available, patterns) ==
    [ providers |-> new_extractor(available).providers,
      failed_providers |-> {},
      subject_patterns |-> patterns ]

ConfiguredInit ==
    /\ apps = << >>
    /\ events = << >>
    /\ companies = << >>
    /\ company_emails = << >>
    /\ last = NoCall
    /\ extractor \in { configured_extractor(av, p) :
                          av \in ConfiguredInstallations, p \in PatternConfigs }
    /\ extract_log = NoExtract
    /\ built = NoBuilt
    /\ evaluated = NoEvaluation
    /\ processed = {}
    /\ sync = NoSync

\* the providers extract calls before providers[i]: those not failed
called_before(i) ==
    { k \in 1..(i - 1) : extractor.providers[k] \notin extractor.failed_providers }

\* failed_providers after the calls in ks raised the exceptions errs
failed_after(ks, errs) ==
    extractor.failed_providers
        \cup { extractor.providers[k] : k \in { j \in ks : is_quota_error(errs[j]) } }

\* extract(m.subject, m.sender, m.text, m.html) returning from the loop: the
\* providers called before providers[i] raise, providers[i] returns answer
extract_from_provider(m) ==
    /\ extract_log.calls < MaxCalls
    /\ \E i \in DOMAIN extractor.providers :
          /\ extractor.providers[i] \notin extractor.failed_providers
          /\ \E errs \in [ called_before(i) -> ProviderErrors ] :
             \E answer \in ProviderAnswers :
                /\ extractor' = [ extractor EXCEPT
                                    !.failed_providers = failed_after(called_before(i), errs) ]
                /\ extract_log' =
                      [ calls |-> extract_log.calls + 1,
                        message |-> m.id,
                        source |-> extractor.providers[i],
                        answer |-> answer,
                        result |-> refine_status(
                                       refine_company_configured(
                                           extractor.subject_patterns, answer,
                                           m.sender, effective_body(m)),
                                       m.subject, effective_body(m)) ]
    /\ UNCHANGED << store_vars, built, evaluated, sync_vars >>

\* extract(m.subject, m.sender, m.text, m.html) after the loop: every
\* provider called raised
extract_from_heuristic(m) ==
    /\ extract_log.calls < MaxCalls
    /\ \E errs \in [ called_before(Len(extractor.providers) + 1) -> ProviderErrors ] :
          /\ extractor' = [ extractor EXCEPT
                              !.failed_providers =
                                  failed_after(called_before(Len(extractor.providers) + 1),
                                               errs) ]
          /\ extract_log' =
                [ calls |-> extract_log.calls + 1,
                  message |-> m.id,
                  source |-> "heuristic",
                  answer |-> NoRecord,
                  result |-> refine_status(
                                 extract_heuristic_configured(
                                     extractor.subject_patterns,
                                     m.subject, m.sender, m.text),
                                 m.subject, m.text) ]
    /\ UNCHANGED << store_vars, built, evaluated, sync_vars >>

ConfiguredNext ==
    \E m \in Corpus : extract_from_provider(m) \/ extract_from_heuristic(m)

ConfiguredSpec == ConfiguredInit /\ [][ConfiguredNext]_vars

(* ------------- ApplicationData: the constructions of the providers ----- *)
\* a provider has parsed the dictionary built.data
SanitizeInit ==
    /\ apps = << >>
    /\ events = << >>
    /\ companies = << >>
    /\ company_emails = << >>
    /\ last = NoCall
    /\ extractor = new_extractor({})
    /\ extract_log = NoExtract
    /\ built \in { [ NoBuilt EXCEPT !.data = data ] : data \in FieldMaps }
    /\ evaluated = NoEvaluation
    /\ processed = {}
    /\ sync = NoSync

\* return ApplicationData(**data) of a provider's extract
build ==
    /\ ~built.made
    /\ built' = [ built EXCEPT !.made = TRUE, !.instance = ApplicationData(built.data) ]
    /\ UNCHANGED << store_vars, extractor, extract_log, evaluated, sync_vars >>

SanitizeNext == build

SanitizeSpec == SanitizeInit /\ [][SanitizeNext]_vars

(* ------------- functions of the arguments alone ------------------------ *)
\* the words employer names are made of: plain words, an acronym, a filler
\* word, a legal-form suffix and punctuation
WordAlpha == <<"A", "l", "p", "h", "a">>
WordData == <<"D", "a", "t", "a">>
WordAD == <<"A", "D">>
WordLimited == <<"L", "i", "m", "i", "t", "e", "d">>
WordGmbH == <<"G", "m", "b", "H">>
WordAG == <<"A", ".", "G", ".">>
WordDash == <<"-">>

NameWords == { WordAlpha, WordData, WordAD, WordLimited, WordGmbH, WordAG, WordDash }

\* the employer names of at most n words
NamesUpTo(n) ==
    UNION { { JoinSpace(ws) : ws \in [1..k -> NameWords] } : k \in 0..n }

EmployerNames == NamesUpTo(MaxNameWords)
PairNames == NamesUpTo(MaxPairWords)

Evaluation(fn, args) == [ fn |-> fn, args |-> args, done |-> FALSE, result |-> None ]

FunctionInit ==
    /\ apps = << >>
    /\ events = << >>
    /\ companies = << >>
    /\ company_emails = << >>
    /\ last = NoCall
    /\ extractor = new_extractor({})
    /\ extract_log = NoExtract
    /\ built = NoBuilt
    /\ evaluated \in
          { Evaluation("can_update_status", <<c, p>>) :
                c \in ApplicationStatus, p \in ApplicationStatus }
          \cup { Evaluation("_normalize_company", <<x>>) : x \in EmployerNames }
          \cup { Evaluation("is_match", <<a, b>>) : a \in PairNames, b \in PairNames }
    /\ processed = {}
    /\ sync = NoSync

\* app.can_update_status(new_status) on a process of status args[1]
call_can_update_status ==
    /\ evaluated.fn = "can_update_status" /\ ~evaluated.done
    /\ evaluated' =
          [ evaluated EXCEPT
              !.done = TRUE,
              !.result = can_update_status([ status |-> evaluated.args[1] ],
                                           evaluated.args[2]) ]
    /\ UNCHANGED << store_vars, extractor_vars, sync_vars >>

\* self._normalize_company(name)
call_normalize_company ==
    /\ evaluated.fn = "_normalize_company" /\ ~evaluated.done
    /\ evaluated' =
          [ evaluated EXCEPT !.done = TRUE,
                             !.result = normalize_company(evaluated.args[1]) ]
    /\ UNCHANGED << store_vars, extractor_vars, sync_vars >>

\* tier 4 of is_match for a record named args[1] and a process named args[2]
call_is_match ==
    /\ evaluated.fn = "is_match" /\ ~evaluated.done
    /\ evaluated' =
          [ evaluated EXCEPT
              !.done = TRUE,
              !.result = name_tier(normalize_company(evaluated.args[1]),
                                   normalize_company(evaluated.args[2])) ]
    /\ UNCHANGED << store_vars, extractor_vars, sync_vars >>

FunctionNext ==
    \/ call_can_update_status
    \/ call_normalize_company
    \/ call_is_match

FunctionSpec == FunctionInit /\ [][FunctionNext]_vars

(* ------------- ApplicationProcessor: the commits of one call ----------- *)
\* the committed rows of the four tables
Store ==
    [ apps |-> apps, events |-> events, companies |-> companies,
      company_emails |-> company_emails ]

\* The stores the commits of one process_extraction call leave, in order:
\* after the commit of a new company in _get_or_create_company, after the
\* commit of a new alias there, after the commit of the process row and after
\* the commit of _log_event.  co is the outcome of _get_or_create_company;
\* a commit writes everything the session holds, and a commit that is not
\* reached leaves the store of the one before.
commit_points(co, apps_after, events_after) ==
    LET s1 == IF Len(co.companies) > Len(companies)
              THEN [ Store EXCEPT !.companies = co.companies ] ELSE Store
        s2 == IF co.company_emails # company_emails
              THEN [ s1 EXCEPT !.companies = co.companies,
                               !.company_emails = co.company_emails ]
              ELSE s1
        s3 == [ apps |-> apps_after, events |-> events,
                companies |-> co.companies, company_emails |-> co.company_emails ]
        s4 == [ s3 EXCEPT !.events = events_after ]
    IN  << s1, s2, s3, s4 >>

\* the commits of _create_application
create_commits(data, meta, timestamp) ==
    { LET new_app == new_application(co.id, data, meta, timestamp)
      IN  commit_points(co, Append(apps, new_app),
                        log_event(events, Len(apps) + 1, NoStatus, new_app.status,
                                  data.summary, meta.subject, timestamp)) :
      co \in get_or_create_company(companies, company_emails, data, meta) }

\* the commits of _update_application on row id, whose current value is app,
\* with the company tables cs and es as the caller left them
update_commits(id, app, cs, es, data, meta, timestamp, override_status) ==
    { LET app1 == [ app EXCEPT !.company_id = co.id ]
      IN  commit_points(co,
                        [ apps EXCEPT ![id] = updated_application(app1, data, meta,
                                                                  timestamp, override_status) ],
                        log_event(events, id, app.status,
                                  resolved_status(override_status, data),
                                  data.summary, meta.subject, timestamp)) :
      co \in IF app.company_id = 0
             THEN get_or_create_company(cs, es, data, meta)
             ELSE { [ companies |-> cs, company_emails |-> es, id |-> app.company_id ] } }

\* the commits of Case 2 on the active row r
active_commits(r, data, meta, timestamp) ==
    LET existing_app == apps[r]
        upgrade == /\ existing_app.company_name = UnknownName
                   /\ data.company_name # UnknownName
    IN  UNION { update_commits(r,
                               IF upgrade
                               THEN [ existing_app EXCEPT !.company_id = co.id,
                                                          !.company_name = data.company_name ]
                               ELSE existing_app,
                               co.companies, co.company_emails,
                               with_default_summary(data), meta, timestamp,
                               final_status_for_db(existing_app.status,
                                                   normalize_raw_status(data.status))) :
                co \in IF upgrade
                       THEN get_or_create_company(companies, company_emails, data, meta)
                       ELSE { [ companies |-> companies, company_emails |-> company_emails,
                                id |-> existing_app.company_id ] } }

\* the commits of process_extraction(data, meta, timestamp) on the store
process_commits(data, meta, timestamp) ==
    UNION { IF r = 0
            THEN create_commits(data, meta, timestamp)
            ELSE IF apps[r].is_active
            THEN active_commits(r, data, meta, timestamp)
            ELSE IF data.status \in fresh_attempt_statuses
            THEN create_commits(data, meta, timestamp)
            ELSE update_commits(r, apps[r], companies, company_emails,
                                data, meta, timestamp, apps[r].status) :
            r \in find_existing_application(data, meta) }

(* ------------- SyncService: run_sync over the mailbox ------------------ *)
\* the message list of run_sync after messages.reverse(): oldest first
message_list ==
    CHOOSE s \in [ 1..Cardinality(MessageIds) -> MessageIds ] :
        \A i, j \in DOMAIN s :
            i < j => Message(s[i]).internalDate < Message(s[j]).internalDate

\* session.get(ProcessedEmail, msg_id) finds a row
is_processed(rows, msg_id) == \E p \in rows : p.email_id = msg_id

\* msg_ids_to_fetch of the batch (batch_size is 10: the mailbox is one batch)
msg_ids_to_fetch == SelectSeq(message_list, LAMBDA id : ~is_processed(processed, id))

\* the installation of the runs: no model file and no API key, so that
\* extract ends in the heuristics
SyncInstallations == { {} }

SyncInit ==
    /\ apps = << >>
    /\ events = << >>
    /\ companies = << >>
    /\ company_emails = << >>
    /\ last = NoCall
    /\ extractor \in { new_extractor(av) : av \in SyncInstallations }
    /\ extract_log = NoExtract
    /\ built = NoBuilt
    /\ evaluated = NoEvaluation
    /\ processed = {}
    /\ sync = NoSync

\* run_sync up to the first _process_message call, on a new EmailExtractor
\* and a new session; with nothing to fetch it returns 0, 0
run_sync ==
    /\ ~sync.active
    /\ sync.runs < MaxRuns
    /\ extractor' = new_extractor(Range(extractor.providers))
    /\ sync' = [ sync EXCEPT !.runs = @ + 1,
                             !.active = msg_ids_to_fetch # << >>,
                             !.ended = IF msg_ids_to_fetch = << >>
                                       THEN "returned" ELSE "none",
                             !.fetched = msg_ids_to_fetch,
                             !.queue = msg_ids_to_fetch,
                             !.failed = {},
                             !.new_emails_count = 0,
                             !.errors_count = 0 ]
    /\ UNCHANGED << store_vars, extract_log, built, evaluated, processed >>

\* run_sync whose batch_get_message_bodies raises: the whole batch is counted
\* as errors
run_sync_fetch_failed ==
    /\ ~sync.active
    /\ sync.runs < MaxRuns
    /\ msg_ids_to_fetch # << >>
    /\ extractor' = new_extractor(Range(extractor.providers))
    /\ sync' = [ sync EXCEPT !.runs = @ + 1,
                             !.ended = "fetch failed",
                             !.fetched = msg_ids_to_fetch,
                             !.queue = << >>,
                             !.failed = {},
                             !.new_emails_count = 0,
                             !.errors_count = Len(msg_ids_to_fetch) ]
    /\ UNCHANGED << store_vars, extract_log, built, evaluated, processed >>

\* email_meta of the fetched message m
email_meta(m) ==
    [ id |-> m.id, thread_id |-> m.threadId, subject |-> m.subject,
      snippet |-> m.snippet,
      sender_name |-> SenderMemo[m.sender].sender_name,
      sender_email |-> SenderMemo[m.sender].sender_email ]

NameSkipped == <<"S", "k", "i", "p", "p", "e", "d">>

\* ProcessedEmail(email_id=msg_id, company_name=company_name)
ProcessedEmail(msg_id, company_name) ==
    [ email_id |-> msg_id, company_name |-> company_name ]

\* a record that is passed on although its employer is "Unknown"
is_unknown_never(data) == FALSE

\* not data or data.company_name == "Unknown"
is_unknown(data) == data.company_name = UnknownName

\* a loop that ends with the message that failed
rest_after_error_none(queue) == << >>

\* success is False: errors_count += 1 and the loop takes the next message
rest_after_error(queue) == Tail(queue)

\* The ways one _process_message(m) call ends.  "done": it returns True, with
\* every commit made.  "raised": a step raises, the handler logs it and the
\* call returns False; the commits made before that step stay.  "stopped":
\* the program is stopped during the call or right after it.  Each way gives
\* the store and the marker rows it leaves, the record extracted, whether
\* extract and process_extraction were called, and failed_providers.
message_outcomes(m) ==
    LET end(outcome, store, rows, o, passed) ==
            [ outcome |-> outcome, store |-> store, rows |-> rows,
              data |-> o.result, extracted |-> o.source # "none", passed |-> passed,
              failed_providers |-> o.failed_providers ]
        not_extracted == [ result |-> NoRecord, source |-> "none",
                           failed_providers |-> extractor.failed_providers ]
        marking(row, o) ==
            { end("done", Store, { row }, o, FALSE),
              end("raised", Store, {}, o, FALSE),
              end("stopped", Store, {}, o, FALSE),
              end("stopped", Store, { row }, o, FALSE) }
        processing(o) ==
            LET row == ProcessedEmail(m.id, o.result.company_name)
                cps == { cp \in process_commits(o.result, email_meta(m), m.internalDate) :
                           /\ Len(cp[4].apps) <= MaxApps
                           /\ Len(cp[4].events) <= MaxEvents }
            IN  UNION { { end("done", cp[4], { row }, o, TRUE),
                          end("raised", Store, {}, o, TRUE),
                          end("stopped", Store, {}, o, TRUE),
                          end("stopped", cp[4], { row }, o, TRUE) }
                        \cup { end("raised", cp[k], {}, o, TRUE) : k \in 1..4 }
                        \cup { end("stopped", cp[k], {}, o, TRUE) : k \in 1..4 } :
                        cp \in cps }
    IN  IF SkipMemo[m.sender]
        THEN marking(ProcessedEmail(m.id, NameSkipped), not_extracted)
        ELSE UNION { IF o.source = "exception"
                     THEN { end("raised", Store, {}, o, FALSE) }
                     ELSE IF is_unknown(o.result)
                     THEN marking(ProcessedEmail(m.id, UnknownName), o)
                     ELSE processing(o) :
                     o \in extract_outcomes(extractor, m) }

\* one _process_message call of the run, on the next fetched message, with
\* the counting of run_sync; after the last message run_sync returns
process_message ==
    /\ sync.active
    /\ sync.queue # << >>
    /\ LET m == Message(Head(sync.queue))
       IN  \E o \in message_outcomes(m) :
              LET rest == IF o.outcome = "stopped" THEN << >>
                          ELSE IF o.outcome = "raised" THEN rest_after_error(sync.queue)
                          ELSE Tail(sync.queue)
              IN  /\ apps' = o.store.apps
                  /\ events' = o.store.events
                  /\ companies' = o.store.companies
                  /\ company_emails' = o.store.company_emails
                  /\ processed' = processed \cup o.rows
                  /\ extractor' = [ extractor EXCEPT !.failed_providers = o.failed_providers ]
                  /\ sync' =
                        [ sync EXCEPT
                            !.active = rest # << >>,
                            !.ended = IF o.outcome = "stopped" THEN "stopped"
                                      ELSE IF rest = << >> THEN "returned" ELSE "none",
                            !.queue = rest,
                            !.failed = IF o.outcome = "raised" THEN @ \cup { m.id } ELSE @,
                            !.new_emails_count = IF o.outcome = "done" THEN @ + 1 ELSE @,
                            !.errors_count = IF o.outcome = "raised" THEN @ + 1 ELSE @,
                            !.last = [ id |-> m.id, outcome |-> o.outcome,
                                       company_name |-> o.data.company_name,
                                       extracted |-> o.extracted, passed |-> o.passed ],
                            !.applied = IF o.store # Store THEN @ \cup { m.id } ELSE @ ]
    /\ UNCHANGED << last, extract_log, built, evaluated >>

SyncNext ==
    \/ run_sync
    \/ run_sync_fetch_failed
    \/ process_message

SyncSpec == SyncInit /\ [][SyncNext]_vars

(* ======================= properties ==================================== *)
\* the row appended last to an event log
LastEvent(evs) == evs[Len(evs)]

\* the events of process a, in insertion order
EventsOf(evs, a) == SelectSeq(evs, LAMBDA e : e.application_id = a)

\* the status an active process is offered by a record of status s
Proposed(s) == IF s \in { "APPLIED", "UNKNOWN" } THEN "COMMUNICATION" ELSE s

\* the process the last call matched, when it matched one
Matched == last.existing_app

(* ----------------------------------------------------------------------- *)
\* C1: rank monotonicity.  No process_extraction call lowers the rank of the
\* status of an existing process, unless the status it leaves is REJECTED;
\* and in the event log of every process each event's new status has a rank
\* at least that of the process's previous event, unless it is REJECTED.
C1_EventsMonotone(evs) ==
    \A a \in { evs[i].application_id : i \in DOMAIN evs } :
        LET h == EventsOf(evs, a)
        IN  \A i \in 1..(Len(h) - 1) :
                \/ STATUS_RANK[h[i + 1].new_status] >= STATUS_RANK[h[i].new_status]
                \/ h[i + 1].new_status = "REJECTED"

C1_Step ==
    /\ \A a \in DOMAIN apps :
          \/ STATUS_RANK[apps'[a].status] >= STATUS_RANK[apps[a].status]
          \/ apps'[a].status = "REJECTED"
    /\ C1_EventsMonotone(events')

C1_RankMonotonic == [][C1_Step]_vars

\* a record of lower rank (ASSESSMENT) was folded into an active process of
\* higher rank, in a run where some event raised a status
C1_Witness ==
    /\ last.kind = "update" /\ last.is_app_active
    /\ last.data.status = "ASSESSMENT"
    /\ STATUS_RANK[apps[Matched].status] > STATUS_RANK["ASSESSMENT"]
    /\ \E i \in DOMAIN events :
          /\ events[i].old_status # NoStatus
          /\ STATUS_RANK[events[i].new_status] > STATUS_RANK[events[i].old_status]

(* ----------------------------------------------------------------------- *)
\* C2: when the resolver returns an active process, a record of status
\* REJECTED makes the process's status REJECTED whatever it was, and a record
\* of any other status changes the process's status exactly when the rank
\* of the offered status is strictly greater than the current rank.
C2_Step ==
    (last'.existing_app # 0 /\ last'.is_app_active) =>
        LET r == last'.existing_app
            s == last'.data.status
        IN  /\ last'.kind = "update"
            /\ IF s = "REJECTED"
               THEN apps'[r].status = "REJECTED"
               ELSE (apps'[r].status # apps[r].status)
                        <=> (STATUS_RANK[Proposed(s)] > STATUS_RANK[apps[r].status])

C2_RejectedAlwaysAllowed == [][C2_Step]_vars

(* ----------------------------------------------------------------------- *)
\* C3: rejection always deactivates.  In every reachable state a process
\* whose status is REJECTED has its active flag false.
C3_RejectedIsInactive ==
    \A a \in AppIds : apps[a].status = "REJECTED" => ~apps[a].is_active

(* ----------------------------------------------------------------------- *)
\* C4: only a rejection deactivates.  In every reachable state a process
\* whose active flag is false has status REJECTED.
C4_InactiveIsRejected ==
    \A a \in AppIds : ~apps[a].is_active => apps[a].status = "REJECTED"

(* ----------------------------------------------------------------------- *)
\* C5: thread continuity.  In every reachable state, for every process P
\* that holds a thread id T, the resolver returns P and nothing else for
\* every message with thread id T, whatever the record's employer name, the
\* sender and P's active flag.
C5_ThreadContinuity ==
    \A a \in AppIds :
        apps[a].thread_id # NoThread =>
            \A m \in Inbox : \A data \in Records(m) :
                m.thread_id = apps[a].thread_id =>
                    find_existing_application(data, MetaOf(m)) = { a }

(* ----------------------------------------------------------------------- *)
\* C6: when the resolver returns an inactive process and the record's status
\* is APPLIED, ASSESSMENT, INTERVIEW or OFFER, the call adds exactly one
\* process and leaves every existing process, the matched one included, and
\* the matched process's events as they were.
C6_Step ==
    ( /\ last'.existing_app # 0
      /\ ~last'.is_app_active
      /\ last'.data.status \in { "APPLIED", "ASSESSMENT", "INTERVIEW", "OFFER" } ) =>
        LET r == last'.existing_app
        IN  /\ Len(apps') = Len(apps) + 1
            /\ \A a \in DOMAIN apps : apps'[a] = apps[a]
            /\ EventsOf(events', r) = EventsOf(events, r)
            /\ LastEvent(events').application_id = Len(apps')

C6_FreshAttemptLeavesOld == [][C6_Step]_vars

\* a second process stands beside the inactive one the resolver returned for
\* an APPLIED record
C6_Witness ==
    /\ last.kind = "create" /\ last.existing_app # 0
    /\ last.data.status = "APPLIED"
    /\ ~apps[last.existing_app].is_active
    /\ apps[last.existing_app].status = "REJECTED"
    /\ last.created = Len(apps) /\ last.created # last.existing_app

(* ----------------------------------------------------------------------- *)
\* C7: an inactive process is never reactivated, and a record of status
\* REJECTED, PENDING, COMMUNICATION or UNKNOWN for which the resolver returns
\* an inactive process updates that process in place: no process is added,
\* its status is unchanged and one event is appended for it.
C7_Step ==
    /\ \A a \in DOMAIN apps : ~apps[a].is_active => ~apps'[a].is_active
    /\ ( /\ last'.existing_app # 0
         /\ ~last'.is_app_active
         /\ last'.data.status \in { "REJECTED", "PENDING", "COMMUNICATION", "UNKNOWN" } ) =>
           LET r == last'.existing_app
           IN  /\ Len(apps') = Len(apps)
               /\ apps'[r].status = apps[r].status
               /\ Len(events') = Len(events) + 1
               /\ LastEvent(events').application_id = r

C7_NoReactivation == [][C7_Step]_vars

\* an inactive process took a PENDING record that carries no rejection flag
C7_Witness ==
    /\ last.kind = "update" /\ ~last.is_app_active
    /\ last.data.status = "PENDING" /\ ~last.data.is_rejection
    /\ ~apps[Matched].is_active
    /\ LastEvent(events).application_id = Matched

(* ----------------------------------------------------------------------- *)
\* C8: when the resolver returns an active process and the record's status
\* is APPLIED or UNKNOWN, the record counts as COMMUNICATION in the rank
\* comparison: a process of rank 2 or more keeps its status, a process of
\* lower rank becomes COMMUNICATION, and an event is appended for the
\* process.
C8_Step ==
    ( /\ last'.existing_app # 0
      /\ last'.is_app_active
      /\ last'.data.status \in { "APPLIED", "UNKNOWN" } ) =>
        LET r == last'.existing_app
        IN  /\ Len(apps') = Len(apps)
            /\ apps'[r].status =
                  IF STATUS_RANK[apps[r].status] >= 2
                  THEN apps[r].status ELSE "COMMUNICATION"
            /\ Len(events') = Len(events) + 1
            /\ LastEvent(events').application_id = r

C8_AppliedIsCommunication == [][C8_Step]_vars

\* an active INTERVIEW process took an APPLIED record and is still INTERVIEW
C8_Witness ==
    /\ last.kind = "update" /\ last.is_app_active
    /\ last.data.status = "APPLIED"
    /\ apps[Matched].status = "INTERVIEW"
    /\ LastEvent(events).application_id = Matched
    /\ LastEvent(events).old_status = "INTERVIEW"

(* ----------------------------------------------------------------------- *)
\* C9: the event log is append-only, one row per call.  Every
\* process_extraction call appends exactly one row and leaves the rows
\* already there as they were.
C9_Step ==
    /\ Len(events') = Len(events) + 1
    /\ SubSeq(events', 1, Len(events)) = events

C9_OneEventPerCall == [][C9_Step]_vars

\* an event was appended for a call that left the status as it was
C9_Witness ==
    /\ Len(events) >= 2
    /\ last.kind = "update"
    /\ LastEvent(events).old_status = LastEvent(events).new_status

(* ----------------------------------------------------------------------- *)
\* C10 as claimed: the event appended by an update has as new status the
\* status the record offered (after the downgrade for an active process),
\* also when the process's status did not change.
C10_Original_Step ==
    last'.kind = "update" =>
        LastEvent(events').new_status =
            IF last'.is_app_active THEN Proposed(last'.data.status)
            ELSE last'.data.status

C10_EventHasOfferedStatus == [][C10_Original_Step]_vars

\* C10 as amended: the event appended by an update records the transition of
\* the process.  Its old status is the process's status before the call and
\* its new status the process's status after it: for an active process the
\* offered status (after the downgrade) when its rank is strictly higher
\* than the current one and else the current status, for an inactive
\* process the current status.
C10_Step ==
    last'.kind = "update" =>
        LET r == last'.existing_app
            e == LastEvent(events')
            offered == Proposed(last'.data.status)
        IN  /\ e.application_id = r
            /\ e.old_status = apps[r].status
            /\ e.new_status = apps'[r].status
            /\ e.new_status =
                  IF /\ last'.is_app_active
                     /\ STATUS_RANK[offered] > STATUS_RANK[apps[r].status]
                  THEN offered ELSE apps[r].status

C10_EventHasResolvedStatus == [][C10_Step]_vars

\* an active INTERVIEW process took a PENDING record: the event says
\* INTERVIEW -> INTERVIEW
C10_Witness ==
    /\ last.kind = "update" /\ last.is_app_active
    /\ last.data.status = "PENDING"
    /\ LastEvent(events).old_status = "INTERVIEW"
    /\ LastEvent(events).new_status = "INTERVIEW"
    /\ apps[Matched].status = "INTERVIEW"


(* ======================= properties of the extractor =================== *)
\* the provider calls of the last extract call that raised
Failures(log) == SelectSeq(log.invoked, LAMBDA c : c.error # None)

\* the provider names of the calls cs, in call order
Names(cs) == [ i \in DOMAIN cs |-> cs[i].provider ]

\* the threshold the circuit breaker test sets
max_failures == 2

(* ----------------------------------------------------------------------- *)
\* C11: once max_failures extract calls in a row have ended in the heuristic
\* fallback, every further extract call invokes no provider and returns the
\* heuristic result.
C11_Step ==
    extract_log.fallbacks >= max_failures =>
        /\ extract_log'.invoked = << >>
        /\ extract_log'.source = "heuristic"

C11_CircuitBreaker == [][C11_Step]_vars

(* ----------------------------------------------------------------------- *)
\* C12: the instance carries the counter consecutive_ai_failures; an extract
\* call that ends in the heuristic fallback increases it by one and an
\* extract call in which a provider succeeds resets it to zero.
C12_Step ==
    /\ "consecutive_ai_failures" \in DOMAIN extractor'
    /\ extractor'.consecutive_ai_failures =
          IF extract_log'.source = "heuristic"
          THEN ( IF "consecutive_ai_failures" \in DOMAIN extractor
                 THEN extractor.consecutive_ai_failures ELSE 0 ) + 1
          ELSE 0

C12_FailureCounter == [][C12_Step]_vars


(* ----------------------------------------------------------------------- *)
\* the providers of the instance ex that are not flagged unavailable
Eligible(ex) == SelectSeq(ex.providers, LAMBDA p : p \notin ex.failed_providers)

\* the place of provider p in the priority order of the instance ex
Priority(ex, p) == CHOOSE i \in DOMAIN ex.providers : ex.providers[i] = p

\* What holds of every extract call for the providers flagged unavailable: a
\* flagged provider is not invoked, a provider that raises a quota error is
\* flagged, and a flag is never removed.
QuotaIsPermanent ==
    /\ \A i \in DOMAIN extract_log'.invoked :
          LET c == extract_log'.invoked[i]
          IN  /\ c.provider \notin extractor.failed_providers
              /\ c.error # None /\ is_quota_error(c.error)
                    => c.provider \in extractor'.failed_providers
    /\ extractor.failed_providers \subseteq extractor'.failed_providers

\* the provider calls of the previous extract call that raised another error
OtherErrors == { i \in DOMAIN extract_log.invoked :
                   /\ extract_log.invoked[i].error # None
                   /\ ~is_quota_error(extract_log.invoked[i].error) }

\* C13 as stated: a quota error removes the provider for all later calls; a
\* provider that raised another error is invoked again in the next call.
C13_Original_Step ==
    /\ QuotaIsPermanent
    /\ \A i \in OtherErrors :
          \E j \in DOMAIN extract_log'.invoked :
              extract_log'.invoked[j].provider = extract_log.invoked[i].provider

C13_InvokedAgainNextCall == [][C13_Original_Step]_vars

\* C13, amended: a quota error removes the provider for all later calls; a
\* provider that raised another error is not flagged, and the next call
\* invokes it again unless a provider before it in the order succeeds first.
C13_Step ==
    /\ QuotaIsPermanent
    /\ \A i \in OtherErrors :
          LET p == extract_log.invoked[i].provider
          IN  /\ p \notin extractor.failed_providers
              /\ \/ \E j \in DOMAIN extract_log'.invoked :
                        extract_log'.invoked[j].provider = p
                 \/ /\ extract_log'.source \in Range(extractor.providers)
                    /\ Priority(extractor, extract_log'.source) < Priority(extractor, p)

C13_SessionFailover == [][C13_Step]_vars

\* reached: a second call that leaves out a flagged provider and invokes a
\* provider that raises an error which is not a quota error
C13_Witness ==
    /\ extract_log.calls >= 2
    /\ \E p \in extractor.failed_providers :
          \A i \in DOMAIN extract_log.invoked : extract_log.invoked[i].provider # p
    /\ \E i \in DOMAIN extract_log.invoked :
          /\ extract_log.invoked[i].error # None
          /\ ~is_quota_error(extract_log.invoked[i].error)

(* ----------------------------------------------------------------------- *)
IsPrefix(a, b) == Len(a) <= Len(b) /\ a = SubSeq(b, 1, Len(a))

\* C14: an extract call invokes the eligible providers in their priority
\* order, each at most once, up to and including the first that succeeds; it
\* returns that provider's record, and with no success it has invoked every
\* eligible provider.
C14_Step ==
    LET log == extract_log'
        calls == log.invoked
        succeeded == calls # << >> /\ calls[Len(calls)].error = None
    IN  /\ IsPrefix(Names(calls), Eligible(extractor))
        /\ \A i \in 1..(Len(calls) - 1) : calls[i].error # None
        /\ IF succeeded
           THEN /\ log.source = calls[Len(calls)].provider
                /\ log.result.summary = "Provider summary"
           ELSE /\ Names(calls) = Eligible(extractor)
                /\ log.source = "heuristic"

C14_PriorityOrder == [][C14_Step]_vars

\* reached: the first two providers raise and the third returns
C14_Witness ==
    /\ Len(extract_log.invoked) = 3
    /\ extract_log.invoked[1].error # None
    /\ extract_log.invoked[2].error # None
    /\ extract_log.invoked[3].error = None
    /\ extract_log.source = extract_log.invoked[3].provider

(* ----------------------------------------------------------------------- *)
\* C15: no extract call ends in an exception, and a call in which no
\* provider returns a record returns the record of the heuristics.
C15_NeverRaises ==
    extract_log.calls > 0 =>
        /\ extract_log.source # "exception"
        /\ Failures(extract_log) = extract_log.invoked =>
              /\ extract_log.source = "heuristic"
              /\ extract_log.result.summary = HeuristicSummary
              /\ extract_log.result.status \in ApplicationStatus

\* reached: a call on an instance all of whose providers are flagged
C15_Witness ==
    /\ extract_log.calls > 0
    /\ extractor.providers # << >>
    /\ Range(extractor.providers) = extractor.failed_providers
    /\ extract_log.invoked = << >>
    /\ extract_log.source = "heuristic"


(* ------------------------- properties of the sync service -------------- *)
\* a step that is one _process_message call
HandlesMessage == sync'.runs = sync.runs /\ sync' # sync

(* ----------------------------------------------------------------------- *)
\* C16: over any sequence of run_sync runs on the mailbox, a run stopped at
\* any point and resumed included, the writes of a message are committed by
\* at most one _process_message call, and a message marked processed is never
\* extracted or passed to process_extraction again.
C16_Step ==
    HandlesMessage =>
        /\ Store' # Store => sync'.last.id \notin sync.applied
        /\ sync'.last.extracted \/ sync'.last.passed =>
              ~is_processed(processed, sync'.last.id)

C16_AppliedAtMostOnce == [][C16_Step]_vars

(* ----------------------------------------------------------------------- *)
\* C17: when a _process_message call fails at any step, none of the company,
\* alias, process or event writes made for the message is committed: the
\* store is as it was before the call.
C17_Step ==
    HandlesMessage /\ sync'.last.outcome = "raised" =>
        /\ Store' = Store
        /\ processed' = processed

C17_OneCommit == [][C17_Step]_vars

(* ----------------------------------------------------------------------- *)
\* C18: when a step of _process_message raises for a message, that message
\* alone is counted, once, as an error and is not marked processed, the loop
\* goes on with the next fetched message, and when run_sync returns every
\* fetched message is either marked processed or one of the failed ones; the
\* counters add up to the fetched messages.
C18_Returned ==
    sync.ended = "returned" =>
        /\ \A i \in DOMAIN sync.fetched :
              sync.fetched[i] \notin sync.failed => is_processed(processed, sync.fetched[i])
        /\ sync.errors_count = Cardinality(sync.failed)
        /\ sync.new_emails_count + sync.errors_count = Len(sync.fetched)

C18_Step ==
    /\ HandlesMessage /\ sync'.last.outcome = "raised" =>
          /\ sync'.errors_count = sync.errors_count + 1
          /\ sync'.new_emails_count = sync.new_emails_count
          /\ sync'.failed = sync.failed \cup { sync'.last.id }
          /\ ~is_processed(processed', sync'.last.id)
          /\ sync'.queue = Tail(sync.queue)
    /\ C18_Returned'

C19_Step ==
    HandlesMessage /\ sync'.last.outcome = "done" =>
        /\ is_processed(processed', sync'.last.id)
        /\ \/ SkipMemo[Message(sync'.last.id).sender]
           \/ sync'.last.company_name = UnknownName
           => /\ Store' = Store
              /\ ~sync'.last.passed

C19_MarkedWhateverExtracted == [][C19_Step]_vars

\* a skipped sender and an "Unknown" employer have both been marked
C19_Witness ==
    /\ \E p \in processed :
          /\ p.company_name = NameSkipped
          /\ SkipMemo[Message(p.email_id).sender]
    /\ \E p \in processed :
          /\ p.company_name = UnknownName
          /\ ~SkipMemo[Message(p.email_id).sender]
    /\ sync.last.outcome = "done"

(* ----------------------------------------------------------------------- *)
\* C20: when a configured rejection keyword occurs in the lower-cased subject
\* and body of the message (the body extract prefers: the HTML body when
\* there is one, else the text body), the record extract returns has status
\* REJECTED and the rejection flag set, whichever path produced it.
C20_RejectionOverride ==
    extract_log.calls > 0 =>
        LET m == Message(extract_log.message)
        IN  KeywordMemo[<< m.subject, effective_body(m) >>].rejected =>
                /\ extract_log.result.status = "REJECTED"
                /\ extract_log.result.is_rejection


(* ------------- the correction pass of extract: ConfiguredSpec ---------- *)
\* an extract call has returned
Returned == extract_log.calls > 0

\* the last extract call returned what a provider answered
FromProvider == Returned /\ extract_log.source # "heuristic"

\* the last extract call returned the record of the heuristics
FromHeuristic == Returned /\ extract_log.source = "heuristic"

\* a keyword of the set k occurs in subject + body of the last extract call,
\* the body being the one its return path hands to the correction pass
Seen(k) ==
    LET m == Message(extract_log.message)
    IN  KeywordMemo[<< m.subject,
                       IF extract_log.source = "heuristic"
                       THEN m.text ELSE effective_body(m) >>][k]

\* the status of the record the correction pass of the last call started from
StatusBefore ==
    IF extract_log.source = "heuristic"
    THEN heuristic_record(UnknownName).status
    ELSE extract_log.answer.status

StrongStatuses == { "ASSESSMENT", "INTERVIEW", "OFFER", "REJECTED" }

WeakStatuses == { "APPLIED", "PENDING", "COMMUNICATION", "UNKNOWN" }

\* C21 as stated: with no rejection keyword in subject + body, the status
\* extract returns is the strong status the provider answered with.
C21_StrongUnlessRejection ==
    FromProvider /\ StatusBefore \in StrongStatuses /\ ~Seen("rejected")
        => extract_log.result.status = StatusBefore

\* C21 amended: with no rejection keyword and no assessment keyword in
\* subject + body, the status extract returns is the strong status the
\* provider answered with.
C21_StrongUnlessRejectionOrAssessment ==
    FromProvider /\ StatusBefore \in StrongStatuses
                 /\ ~Seen("rejected") /\ ~Seen("assessment")
        => extract_log.result.status = StatusBefore

\* a provider's INTERVIEW survives a message with an offer keyword
C21_Witness ==
    /\ FromProvider
    /\ StatusBefore = "INTERVIEW"
    /\ ~Seen("rejected") /\ ~Seen("assessment") /\ ~Seen("applied")
    /\ Seen("offer")
    /\ extract_log.result.status = "INTERVIEW"

\* C22: with no rejection and no assessment keyword, an applied keyword
\* forces APPLIED exactly when the status is weak and leaves any other status
\* as it is; without an applied keyword a weak status becomes OFFER on an
\* offer keyword, and INTERVIEW on an interview keyword without an offer one.
C22_WeakStatusRules ==
    Returned /\ ~Seen("rejected") /\ ~Seen("assessment")
        => IF Seen("applied")
           THEN extract_log.result.status =
                    IF StatusBefore \in WeakStatuses THEN "APPLIED" ELSE StatusBefore
           ELSE /\ StatusBefore \in WeakStatuses /\ Seen("offer")
                    => extract_log.result.status = "OFFER"
                /\ StatusBefore \in WeakStatuses /\ ~Seen("offer") /\ Seen("interview")
                    => extract_log.result.status = "INTERVIEW"

\* an offer keyword wins over an interview keyword for a weak status
C22_Witness ==
    /\ FromProvider
    /\ StatusBefore = "UNKNOWN"
    /\ ~Seen("rejected") /\ ~Seen("assessment") /\ ~Seen("applied")
    /\ Seen("offer") /\ Seen("interview")
    /\ extract_log.result.status = "OFFER"

\* C23: whichever path extract returns on, the employer of the record it
\* returns is not one of the configured platform names.
C23_NoPlatformName ==
    Returned => ~IsPlatformName(extract_log.result.company_name)

\* C24: under the configured subject pattern, the provider record with
\* employer "Workday" and status UNKNOWN for the message from
\* notifications@workday.com with subject "Your application at Acme was
\* received" is returned with employer "Acme" and status APPLIED.
C24_ScenarioWorkday ==
    /\ FromProvider
    /\ extractor.subject_patterns = ScenarioPatterns
    /\ Message(extract_log.message).subject = SubjReceived
    /\ Message(extract_log.message).sender = FromNotifications
    /\ extract_log.answer.company_name = NameWorkday
    /\ extract_log.answer.status = "UNKNOWN"
    => /\ extract_log.result.company_name = NameAcme
       /\ extract_log.result.status = "APPLIED"

\* C25: when extract returns the record of the heuristics and no status
\* keyword occurs in subject + body, its status is COMMUNICATION.
C25_HeuristicDefaultStatus ==
    FromHeuristic /\ (\A k \in DOMAIN status_keywords : ~Seen(k))
        => extract_log.result.status = "COMMUNICATION"

(* ------------- the Sanitizer: SanitizeSpec ----------------------------- *)
\* the status of the dictionary built.data names a member of ApplicationStatus
\* in some letter case
Recognized ==
    /\ built.data.status.kind = "str"
    /\ \E member \in ApplicationStatus :
          all_values[member] = Strip(Upper(built.data.status.val))

\* C26: building the record from any dictionary raises nothing, the status of
\* the record is a member of ApplicationStatus, UNKNOWN when the dictionary
\* has no status or an unrecognized one, and the employer, summary and
\* rejection flag of the record are set.
C26_SanitizerTotal ==
    built.made =>
        /\ built.instance.raised = "none"
        /\ built.instance.status \in ApplicationStatus
        /\ ~Recognized => built.instance.status = "UNKNOWN"
        /\ built.instance.summary.kind = "str"
        /\ built.instance.is_rejection \in BOOLEAN

(* ------------- the resolver's search order: Spec ----------------------- *)
\* the records of the message m the resolver is asked about: it reads the
\* employer name and the role title of a record, never its status
Resolved(m) == { data \in Records(m) : data.status = "UNKNOWN" /\ ~data.is_rejection }

\* a process holds the thread id of the message m
ThreadHeld(m) ==
    m.thread_id # NoThread /\ \E a \in AppIds : apps[a].thread_id = m.thread_id

\* the active and the inactive processes that satisfy the matching predicate
ActiveMatches(data, m) ==
    { a \in AppIds : apps[a].is_active /\ is_match(apps[a], data, MetaOf(m)) }

InactiveMatches(data, m) ==
    { a \in AppIds : ~apps[a].is_active /\ is_match(apps[a], data, MetaOf(m)) }

\* C27: in every reachable state and for every message whose thread id no
\* process holds, the resolver returns an active matching process if there is
\* one; otherwise an inactive matching process of the most recent last
\* activity if there is one; and none only when no process matches.
C27_SearchOrder ==
    \A m \in Inbox : \A data \in Resolved(m) :
        ~ThreadHeld(m) =>
            LET returned == find_existing_application(data, MetaOf(m))
                matching == { a \in AppIds : is_match(apps[a], data, MetaOf(m)) }
                active   == { a \in matching : apps[a].is_active }
                inactive == { a \in matching : ~apps[a].is_active }
            IN  /\ returned # {}
                /\ active # {} => returned \subseteq active
                /\ active = {} /\ inactive # {} =>
                      /\ returned \subseteq inactive
                      /\ \A r \in returned : \A b \in inactive :
                            apps[b].last_updated <= apps[r].last_updated
                /\ 0 \in returned => active = {} /\ inactive = {}

\* a message whose thread id no process holds matches no active process and
\* two inactive ones of different last activity
C27_Witness ==
    \E m \in Inbox : \E data \in Resolved(m) :
        /\ ~ThreadHeld(m)
        /\ ActiveMatches(data, m) = {}
        /\ \E a, b \in InactiveMatches(data, m) :
              apps[a].last_updated < apps[b].last_updated

(* ------------- shared and public domains: SharedSpec ------------------- *)
\* the sender of the message m and the process a have different addresses on
\* one domain that is a shared applicant-tracking domain or a public webmail
\* domain
SameSharedDomain(m, a) ==
    /\ lower(m.sender_email) # lower(apps[a].sender_email)
    /\ domain_of_lower(m.sender_email) = domain_of_lower(apps[a].sender_email)
    /\ domain_of_lower(m.sender_email) \in shared_platform_anchors \cup generic_domains

\* nothing but the domain connects the message m to the process a: another
\* thread, another employer name, another sender name, and no alias row for
\* the sender
DomainAlone(m, a) ==
    /\ ~ThreadHeld(m)
    /\ m.company_name # apps[a].company_name
    /\ ~name_match(m.company_name, apps[a].company_name)
    /\ lower(m.sender_name) # lower(apps[a].sender_name)
    /\ \A i \in DOMAIN company_emails : company_emails[i].email # lower(m.sender_email)

\* C28: in every reachable state, a message and a process that share nothing
\* but a shared-platform or public webmail domain do not match, so the
\* resolver never returns that process for the message.
C28_NoMatchOnSharedDomain ==
    \A m \in SharedInbox : \A data \in Resolved(m) : \A a \in AppIds :
        SameSharedDomain(m, a) /\ DomainAlone(m, a) =>
            /\ ~is_match(apps[a], data, MetaOf(m))
            /\ a \notin find_existing_application(data, MetaOf(m))

(* ------------- the alias table: Spec and SharedSpec -------------------- *)
\* C29: in every reachable state no two CompanyEmail rows hold the same
\* email address.
C29_AliasUnique ==
    \A i, j \in DOMAIN company_emails :
        company_emails[i].email = company_emails[j].email => i = j

\* a second process was created for a sender whose address was an alias
\* already, and the table still holds that one row
C29_Witness ==
    /\ last.kind = "create"
    /\ last.created = 2
    /\ Len(company_emails) = 1
    /\ company_emails[1].email = lower(last.meta.sender_email)

\* the sender's address is in the excluded shared-address set, on a
\* shared-platform domain or on a public webmail domain
ExcludedAddress(email) ==
    \/ email \in shared_emails
    \/ DomainOf(email) \in shared_platform_anchors
    \/ DomainOf(email) \in generic_domains

\* C30: in every reachable state no CompanyEmail row holds an address of the
\* excluded shared-address set, of a shared-platform domain or of a public
\* webmail domain.
C30_NoExcludedAlias ==
    \A i \in DOMAIN company_emails : ~ExcludedAddress(company_emails[i].email)

(* ----------------------------------------------------------------------- *)
\* C31: when the resolver finds no match, process_extraction inserts exactly
\* one new process, whose status is APPLIED if the record's status is UNKNOWN
\* and otherwise the record's status, and appends one creation event for it
\* with prior status none and new status equal to the process's status.
C31_Step ==
    (last'.existing_app = 0) =>
        LET n == Len(apps) + 1
            e == LastEvent(events')
        IN  /\ last'.kind = "create"
            /\ Len(apps') = n
            /\ SubSeq(apps', 1, Len(apps)) = apps
            /\ apps'[n].status = IF last'.data.status = "UNKNOWN"
                                 THEN "APPLIED" ELSE last'.data.status
            /\ Len(events') = Len(events) + 1
            /\ SubSeq(events', 1, Len(events)) = events
            /\ e.application_id = n
            /\ e.old_status = NoStatus
            /\ e.new_status = apps'[n].status

C31_CreateProcess == [][C31_Step]_vars

\* an UNKNOWN record that matched nothing stands as an APPLIED process with
\* its creation event
C31_Witness ==
    /\ last.kind = "create" /\ last.existing_app = 0
    /\ last.data.status = "UNKNOWN"
    /\ last.created = Len(apps)
    /\ apps[last.created].status = "APPLIED"
    /\ LastEvent(events).application_id = last.created
    /\ LastEvent(events).old_status = NoStatus
    /\ LastEvent(events).new_status = "APPLIED"

(* ----------------------------------------------------------------------- *)
\* the fields _update_application writes only for a message that is not
\* older than the process's last activity
MessageFields(app) ==
    << app.last_updated, app.sender_name, app.sender_email, app.summary,
       app.email_id, app.email_subject >>

\* C32: an update changes the process's last-activity timestamp, sender
\* name and email, summary and last message id and subject only if the
\* message timestamp is not older than the process's current last activity:
\* then they take the message's values.  For an older message those fields
\* are left unchanged, while the resolved status is still applied and the
\* event is still appended.
C32_Step ==
    last'.kind = "update" =>
        LET r == last'.existing_app
            meta == last'.meta
            e == LastEvent(events')
            offered == Proposed(last'.data.status)
            resolved == IF /\ last'.is_app_active
                           /\ STATUS_RANK[offered] > STATUS_RANK[apps[r].status]
                        THEN offered ELSE apps[r].status
        IN  /\ IF last'.timestamp >= apps[r].last_updated
               THEN /\ apps'[r].last_updated = last'.timestamp
                    /\ apps'[r].sender_name = meta.sender_name
                    /\ apps'[r].sender_email = meta.sender_email
                    /\ apps'[r].email_id = meta.id
                    /\ apps'[r].email_subject = meta.subject
                    /\ apps'[r].summary =
                          IF last'.is_app_active
                          THEN with_default_summary(last'.data).summary
                          ELSE last'.data.summary
               ELSE MessageFields(apps'[r]) = MessageFields(apps[r])
            /\ apps'[r].status = resolved
            /\ Len(events') = Len(events) + 1
            /\ e.application_id = r
            /\ e.new_status = resolved

C32_OlderMessageFrame == [][C32_Step]_vars

\* a process last active at 2 took an older message (timestamp 1) that raised
\* its status to INTERVIEW: the message fields are still those of the newer
\* message
C32_Witness ==
    /\ last.kind = "update" /\ last.is_app_active
    /\ last.timestamp = 1
    /\ last.data.status = "INTERVIEW"
    /\ apps[Matched].status = "INTERVIEW"
    /\ apps[Matched].last_updated = 2
    /\ apps[Matched].email_id = "m1"
    /\ LastEvent(events).application_id = Matched
    /\ LastEvent(events).old_status = "APPLIED"

(* ----------------------------------------------------------------------- *)
\* the new statuses of the events of process a
StatusHistory(evs, a) ==
    { evs[i].new_status : i \in { j \in DOMAIN evs : evs[j].application_id = a } }

\* C33: milestone flags.  Whenever an update applies a resolved status of
\* ASSESSMENT the process's reached-assessment flag is true afterwards, and
\* whenever it applies INTERVIEW the reached-interview flag is true
\* afterwards; and a process whose status history includes INTERVIEW has
\* reached-interview set.
C33_Step ==
    /\ last'.kind = "update" =>
          LET r == last'.existing_app
          IN  /\ apps'[r].status = "ASSESSMENT" => apps'[r].reached_assessment
              /\ apps'[r].status = "INTERVIEW" => apps'[r].reached_interview
    /\ \A a \in DOMAIN apps' :
          "INTERVIEW" \in StatusHistory(events', a) => apps'[a].reached_interview

C33_MilestoneFlags == [][C33_Step]_vars

(* ----------------------------------------------------------------------- *)
\* C34: can_update_status(S) is true exactly when rank(S) > rank(current
\* status) or S = REJECTED, for every pair of current and proposed statuses:
\* APPLIED to INTERVIEW and INTERVIEW to OFFER are allowed, INTERVIEW to
\* APPLIED is not, and REJECTED is allowed from every status.
C34_CanUpdateStatus ==
    (evaluated.fn = "can_update_status" /\ evaluated.done) =>
        LET current == evaluated.args[1]
            S == evaluated.args[2]
        IN  /\ evaluated.result
                  <=> (STATUS_RANK[S] > STATUS_RANK[current] \/ S = "REJECTED")
            /\ (current = "APPLIED" /\ S = "INTERVIEW") => evaluated.result
            /\ (current = "INTERVIEW" /\ S = "APPLIED") => ~evaluated.result
            /\ (current = "INTERVIEW" /\ S = "OFFER") => evaluated.result
            /\ S = "REJECTED" => evaluated.result

\* REJECTED was allowed for a process of status OFFER, whose rank is higher
C34_Witness ==
    /\ evaluated.fn = "can_update_status" /\ evaluated.done
    /\ evaluated.args = << "OFFER", "REJECTED" >>
    /\ evaluated.result

(* ----------------------------------------------------------------------- *)
\* C35: employer-name normalization is idempotent: for every employer name x
\* made of at most MaxNameWords words, suffix words and punctuation marks,
\* _normalize_company(_normalize_company(x)) equals _normalize_company(x).
C35_NormalizeIdempotent ==
    (evaluated.fn = "_normalize_company" /\ evaluated.done) =>
        normalize_company(evaluated.result) = evaluated.result

\* a name that lost punctuation and two suffixes, one behind the other
C35_Witness ==
    /\ evaluated.fn = "_normalize_company" /\ evaluated.done
    /\ evaluated.args[1] = JoinSpace(<< WordAlpha, WordAG, WordGmbH >>)
    /\ evaluated.result = Lower(WordAlpha)

(* ----------------------------------------------------------------------- *)
\* C36: name matching is symmetric: for every pair of employer names a and
\* b, the name tier (equality of the normalized names, acronym check,
\* containment after removing filler words) matches a record named a against
\* a process named b exactly when it matches a record named b against a
\* process named a.
C36_NameMatchSymmetric ==
    (evaluated.fn = "is_match" /\ evaluated.done) =>
        evaluated.result =
            name_tier(normalize_company(evaluated.args[2]),
                      normalize_company(evaluated.args[1]))

\* a record named by its acronym matched a process named in full
C36_Witness ==
    /\ evaluated.fn = "is_match" /\ evaluated.done
    /\ evaluated.args = << WordAD, JoinSpace(<< WordAlpha, WordData >>) >>
    /\ evaluated.result

(* ----------------------------------------------------------------------- *)
\* C37: identity upgrade.  When process_extraction matches an active process
\* whose employer name is "Unknown" and the record's employer name is not
\* "Unknown", the process's employer name becomes the record's name and its
\* company reference becomes the company found or created for that name: the
\* company of that name when one exists, else a company of the sender's
\* domain or a new company of that name.  A matched process with a known
\* employer name never has its name changed.
C37_Step ==
    /\ ( /\ last'.existing_app # 0
         /\ last'.is_app_active
         /\ apps[last'.existing_app].company_name = UnknownName
         /\ last'.data.company_name # UnknownName ) =>
           LET r == last'.existing_app
               name == last'.data.company_name
               c == apps'[r].company_id
               named == { k \in DOMAIN companies : companies[k].name = name }
           IN  /\ apps'[r].company_name = name
               /\ c \in DOMAIN companies'
               /\ IF named # {} THEN c \in named
                  ELSE \/ c = Len(companies) + 1 /\ companies'[c].name = name
                       \/ /\ c \in DOMAIN companies
                          /\ companies[c].domain # None
                          /\ companies[c].domain = domain_of_lower(last'.meta.sender_email)
    /\ \A a \in DOMAIN apps :
          apps[a].company_name # UnknownName =>
              apps'[a].company_name = apps[a].company_name

C38_ThreadUnique ==
    \A a \in AppIds : \A b \in AppIds :
        (a # b /\ apps[a].thread_id # NoThread) =>
            apps[a].thread_id # apps[b].thread_id

(* ----------------------------------------------------------------------- *)
\* C39: the events of each process form a consistent chain: in append order
\* the first event has prior status none, every later event's prior status
\* equals the preceding event's new status, and the new status of the last
\* event equals the process's current status.
C39_EventChain ==
    \A a \in AppIds :
        LET h == EventsOf(events, a)
        IN  /\ Len(h) >= 1
            /\ h[1].old_status = NoStatus
            /\ \A i \in 2..Len(h) : h[i].old_status = h[i - 1].new_status
            /\ h[Len(h)].new_status = apps[a].status

\* a process with three events that rose from APPLIED over INTERVIEW to OFFER
C39_Witness ==
    \E a \in AppIds :
        LET h == EventsOf(events, a)
        IN  /\ Len(h) = 3
            /\ h[1].new_status = "APPLIED"
            /\ h[2].old_status = "APPLIED" /\ h[2].new_status = "INTERVIEW"
            /\ h[3].old_status = "INTERVIEW" /\ h[3].new_status = "OFFER"
            /\ apps[a].status = "OFFER"

(* ----------------------------------------------------------------------- *)
\* C40: process_extraction creates a new process only when the resolver
\* returns none or returns an inactive process with a proposed status that is
\* a strong forward signal (APPLIED, ASSESSMENT, INTERVIEW or OFFER);
\* whenever the resolver returns an active process the number of processes is
\* unchanged by the call, and every call creates at most one process.
C40_Step ==
    /\ Len(apps') \in { Len(apps), Len(apps) + 1 }
    /\ Len(apps') = Len(apps) + 1 =>
          \/ last'.existing_app = 0
          \/ /\ ~last'.is_app_active
             /\ last'.data.status \in { "APPLIED", "ASSESSMENT", "INTERVIEW", "OFFER" }
    /\ (last'.existing_app # 0 /\ last'.is_app_active) => Len(apps') = Len(apps)

C40_CreatesOnlyWhenUnmatched == [][C40_Step]_vars

\* an INTERVIEW record for which the resolver returned an inactive process
\* stands as a second process, and an earlier call on an active process had
\* added none
C40_Witness ==
    /\ last.kind = "create" /\ last.existing_app # 0 /\ ~last.is_app_active
    /\ last.data.status = "INTERVIEW"
    /\ Len(apps) = 2 /\ Len(events) = 3
    /\ Len(EventsOf(events, last.existing_app)) = 2

====
